---- MODULE Spec2Model ----
(***************************************************************************)
(* DAQ pressure monitor (daq_pressure_monitor.py): the two-point linear    *)
(* calibration transform, the in-memory data recorder and the GUI handlers *)
(* that drive them, with the acquisition thread that feeds samples to the  *)
(* GUI thread through Qt's queued signal data_ready.                       *)
(*                                                                         *)
(* Python floats are IEEE-754 binary64 numbers.  They are modelled         *)
(* exactly: a float is a record [neg, m, e] of value (-1)^neg * m * 2^e    *)
(* whose significand m is a natural number of at most Precision bits,      *)
(* kept as a little-endian sequence of bits because it does not fit a      *)
(* machine integer.  Every arithmetic operation is the exact operation     *)
(* followed by rounding to nearest, ties to even.  The exponent range is   *)
(* not bounded: no value of the model comes near overflow or underflow.    *)
(* The sign of zero is not kept (-0.0 == 0.0 in Python).                   *)
(***************************************************************************)
EXTENDS Integers, Sequences, FiniteSets, TLC

----------------------------------------------------------------------------
(* Natural numbers of any size: little-endian bit sequences, no high zero. *)

NBit(a, i) == IF i >= 1 /\ i <= Len(a) THEN a[i] ELSE 0

NTrim(a) ==
  LET ones == {i \in 1..Len(a) : a[i] = 1}
  IN  IF ones = {} THEN <<>>
      ELSE SubSeq(a, 1, CHOOSE i \in ones : \A j \in ones : j <= i)

RECURSIVE NFromInt(_)
NFromInt(n) == IF n = 0 THEN <<>> ELSE <<n % 2>> \o NFromInt(n \div 2)

\* the carry into bit i of a + b: generated at some lower bit and propagated up to i
NCarry(a, b, i) ==
  \E j \in 1..(i - 1) :
     /\ NBit(a, j) + NBit(b, j) = 2
     /\ \A k \in (j + 1)..(i - 1) : NBit(a, k) + NBit(b, k) >= 1

NAdd(a, b) ==
  LET n == IF Len(a) > Len(b) THEN Len(a) ELSE Len(b)
  IN  NTrim([i \in 1..(n + 1) |->
               (NBit(a, i) + NBit(b, i) + (IF NCarry(a, b, i) THEN 1 ELSE 0)) % 2])

\* the borrow from bit i of a - b
NBorrow(a, b, i) ==
  \E j \in 1..(i - 1) :
     /\ NBit(a, j) < NBit(b, j)
     /\ \A k \in (j + 1)..(i - 1) : NBit(a, k) <= NBit(b, k)

\* a - b for a >= b
NSub(a, b) ==
  NTrim([i \in 1..Len(a) |->
           (NBit(a, i) - NBit(b, i) - (IF NBorrow(a, b, i) THEN 1 ELSE 0) + 2) % 2])

NLess(a, b) ==
  \/ Len(a) < Len(b)
  \/ /\ Len(a) = Len(b)
     /\ \E i \in 1..Len(a) : a[i] < b[i] /\ \A k \in (i + 1)..Len(a) : a[k] = b[k]

\* a * 2^n
NShl(a, n) == IF a = <<>> THEN a ELSE [i \in 1..n |-> 0] \o a

\* a times the bits lo..hi of b, each at its weight
RECURSIVE NMulBits(_, _, _, _)
NMulBits(a, b, lo, hi) ==
  IF lo = hi THEN (IF b[lo] = 1 THEN NShl(a, lo - 1) ELSE <<>>)
  ELSE LET mid == (lo + hi) \div 2
       IN  NAdd(NMulBits(a, b, lo, mid), NMulBits(a, b, mid + 1, hi))

NMul(a, b) == IF a = <<>> \/ b = <<>> THEN <<>> ELSE NMulBits(a, b, 1, Len(b))

\* one step of long division by d # 0: bring down bit i of n into qr = <<quotient, remainder>>
NDivBit(n, d, i, qr) ==
  LET r2 == NTrim(<<n[i]>> \o qr[2])
  IN  IF NLess(r2, d)
      THEN << (IF qr[1] = <<>> THEN <<>> ELSE <<0>> \o qr[1]), r2 >>
      ELSE << <<1>> \o qr[1], NSub(r2, d) >>

\* the steps for bits hi down to lo; the upper half is computed before the lower
\* half is entered
RECURSIVE NDivBits(_, _, _, _, _)
NDivBits(n, d, hi, lo, qr) ==
  IF hi = lo THEN NDivBit(n, d, hi, qr)
  ELSE LET mid   == (lo + hi) \div 2
           upper == NDivBits(n, d, hi, mid + 1, qr)
       IN  IF upper[1] = <<>> /\ upper[2] = <<>>
           THEN NDivBits(n, d, mid, lo, << <<>>, <<>> >>)
           ELSE NDivBits(n, d, mid, lo, upper)

\* <<quotient, remainder>> of n by d # 0
NDivMod(n, d) ==
  IF n = <<>> THEN << <<>>, <<>> >> ELSE NDivBits(n, d, Len(n), 1, << <<>>, <<>> >>)

\* the number whose 16-bit digits, most significant first, are w
RECURSIVE NFromWords(_)
NFromWords(w) ==
  IF w = <<>> THEN <<>>
  ELSE NAdd(NFromInt(w[Len(w)]), NShl(NFromWords(SubSeq(w, 1, Len(w) - 1)), 16))

----------------------------------------------------------------------------
(* Dyadic rationals (-1)^neg * m * 2^e, canonical: m odd, or zero.         *)

Zero == [neg |-> FALSE, m |-> <<>>, e |-> 0]

\* number of low zero bits of m # 0
NLowZeros(m) == CHOOSE k \in 0..(Len(m) - 1) :
                  m[k + 1] = 1 /\ \A j \in 1..k : m[j] = 0

Dy(neg, m, e) ==
  IF m = <<>> THEN Zero
  ELSE LET k == NLowZeros(m)
       IN  [neg |-> neg, m |-> SubSeq(m, k + 1, Len(m)), e |-> e + k]

\* n * 2^e for a machine integer n
F(n, e) == Dy(n < 0, NFromInt(IF n < 0 THEN -n ELSE n), e)

IsZero(x) == x.m = <<>>
DNeg(x) == IF IsZero(x) THEN x ELSE [x EXCEPT !.neg = ~x.neg]
DAbs(x) == [x EXCEPT !.neg = FALSE]

DMul(x, y) ==
  IF Len(x.m) >= Len(y.m)
  THEN Dy(x.neg # y.neg, NMul(x.m, y.m), x.e + y.e)
  ELSE Dy(x.neg # y.neg, NMul(y.m, x.m), x.e + y.e)

DAdd(x, y) ==
  IF IsZero(x) THEN y
  ELSE IF IsZero(y) THEN x
  ELSE LET e  == IF x.e < y.e THEN x.e ELSE y.e
           xm == NShl(x.m, x.e - e)
           ym == NShl(y.m, y.e - e)
       IN  IF x.neg = y.neg THEN Dy(x.neg, NAdd(xm, ym), e)
           ELSE IF NLess(xm, ym) THEN Dy(y.neg, NSub(ym, xm), e)
           ELSE Dy(x.neg, NSub(xm, ym), e)

DSub(x, y) == DAdd(x, DNeg(y))

DLt(x, y) == DSub(x, y).neg
DLeq(x, y) == ~DLt(y, x)

----------------------------------------------------------------------------
(* binary64 arithmetic: the exact result rounded to Precision bits.        *)

Precision == 53

\* round to nearest, ties to even
Round(x) ==
  IF Len(x.m) <= Precision THEN x
  ELSE LET drop   == Len(x.m) - Precision
           kept   == SubSeq(x.m, drop + 1, Len(x.m))
           guard  == x.m[drop]
           sticky == \E j \in 1..(drop - 1) : x.m[j] = 1
           up     == guard = 1 /\ (sticky \/ kept[1] = 1)
       IN  Dy(x.neg, IF up THEN NAdd(kept, <<1>>) ELSE kept, x.e + drop)

FAdd(x, y) == Round(DAdd(x, y))
FSub(x, y) == Round(DSub(x, y))
FMul(x, y) == Round(DMul(x, y))

\* x / y for y # 0: Precision + 2 or more quotient bits, then a sticky bit
FDiv(x, y) ==
  IF IsZero(x) THEN Zero
  ELSE LET k  == IF Len(y.m) > Len(x.m)
                 THEN Precision + 2 + Len(y.m) - Len(x.m) ELSE Precision + 2
           qr == NDivMod(NShl(x.m, k), y.m)
           st == IF qr[2] = <<>> THEN 0 ELSE 1
       IN  Round(Dy(x.neg # y.neg, <<st>> \o qr[1], x.e - y.e - k - 1))

FAbs(x) == DAbs(x)
FLt(x, y) == DLt(x, y)

----------------------------------------------------------------------------
(* CalibrationData and PinNameEditor.apply_calibration                     *)

MaxPhysical == 1

\* physical values and voltages the calibration points and readings are drawn from:
\* 0.0, 2^-20 (below the 1e-6 threshold), 1.0, 2.5, 5.0
Physicals == {F(n, 0) : n \in 0..MaxPhysical}
Voltages  == {F(0, 0), F(1, -20), F(1, 0), F(5, -1), F(5, 0)}
Units     == {"m"}

CalibrationData(p1, v1, p2, v2, unit, enabled) ==
  [point1_physical |-> p1, point1_voltage |-> v1,
   point2_physical |-> p2, point2_voltage |-> v2,
   physical_unit |-> unit, is_calibrated |-> enabled]

\* the dataclass defaults
DefaultCalibration == CalibrationData(F(0, 0), F(0, 0), F(1, 0), F(5, 0), "m", FALSE)

Calibrations ==
  {CalibrationData(p1, v1, p2, v2, u, en) :
     p1 \in Physicals, v1 \in Voltages, p2 \in Physicals, v2 \in Voltages,
     u \in Units, en \in BOOLEAN}

\* the float literal 1e-6 = 0x10C6F7A0B5ED8D * 2^-72
OneMillionth == Dy(FALSE, NFromWords(<<16, 50935, 41141, 60813>>), -72)

\* an exception in place of a value
ZeroDivisionError == [exception |-> "ZeroDivisionError"]

\* Python's x / y on floats
PyDiv(x, y) == IF IsZero(y) THEN ZeroDivisionError ELSE FDiv(x, y)

\* apply_calibration with the intercept taken at the second point's voltage
apply_calibration_intercept_at_point2(voltage, calibration) ==
  IF ~calibration.is_calibrated THEN voltage
  ELSE LET voltage_diff == FSub(calibration.point2_voltage, calibration.point1_voltage)
       IN  IF FLt(FAbs(voltage_diff), OneMillionth)
           THEN calibration.point1_physical
           ELSE LET slope == FDiv(FSub(calibration.point2_physical,
                                       calibration.point1_physical), voltage_diff)
                    intercept == FSub(calibration.point1_physical,
                                      FMul(slope, calibration.point2_voltage))
                IN  FAdd(FMul(slope, voltage), intercept)

\* apply_calibration that transforms whether or not the calibration is enabled
apply_calibration_ignoring_flag(voltage, calibration) ==
  LET voltage_diff == FSub(calibration.point2_voltage, calibration.point1_voltage)
  IN  IF FLt(FAbs(voltage_diff), OneMillionth)
      THEN calibration.point1_physical
      ELSE LET slope == FDiv(FSub(calibration.point2_physical,
                                  calibration.point1_physical), voltage_diff)
               intercept == FSub(calibration.point1_physical,
                                 FMul(slope, calibration.point1_voltage))
           IN  FAdd(FMul(slope, voltage), intercept)

\* apply_calibration without the test for near-equal voltages
apply_calibration_unguarded(voltage, calibration) ==
  IF ~calibration.is_calibrated THEN voltage
  ELSE LET voltage_diff == FSub(calibration.point2_voltage, calibration.point1_voltage)
           slope == PyDiv(FSub(calibration.point2_physical,
                               calibration.point1_physical), voltage_diff)
       IN  IF slope = ZeroDivisionError THEN ZeroDivisionError
           ELSE LET intercept == FSub(calibration.point1_physical,
                                      FMul(slope, calibration.point1_voltage))
                IN  FAdd(FMul(slope, voltage), intercept)

\* apply_calibration with the slope inverted: voltage difference over physical difference
apply_calibration_inverse_slope(voltage, calibration) ==
  IF ~calibration.is_calibrated THEN voltage
  ELSE LET voltage_diff == FSub(calibration.point2_voltage, calibration.point1_voltage)
           physical_diff == FSub(calibration.point2_physical, calibration.point1_physical)
       IN  IF FLt(FAbs(voltage_diff), OneMillionth) \/ IsZero(physical_diff)
           THEN calibration.point1_physical
           ELSE LET slope == FDiv(voltage_diff, physical_diff)
                    intercept == FSub(calibration.point1_physical,
                                      FMul(slope, calibration.point1_voltage))
                IN  FAdd(FMul(slope, voltage), intercept)

apply_calibration(voltage, calibration) ==
  IF ~calibration.is_calibrated THEN voltage
  ELSE LET voltage_diff == FSub(calibration.point2_voltage, calibration.point1_voltage)
       IN  IF FLt(FAbs(voltage_diff), OneMillionth)
           THEN calibration.point1_physical
           ELSE LET slope == PyDiv(FSub(calibration.point2_physical,
                                        calibration.point1_physical), voltage_diff)
                IN  IF slope = ZeroDivisionError THEN ZeroDivisionError
                    ELSE LET intercept == FSub(calibration.point1_physical,
                                               FMul(slope, calibration.point1_voltage))
                         IN  FAdd(FMul(slope, voltage), intercept)

----------------------------------------------------------------------------
(* Bounds of the application model.                                         *)

MaxQueue    == 1   \* data_ready signals emitted and not yet delivered
MaxSamples  == 2   \* samples of a session, recorded or queued for it
MaxTime     == 1   \* readings of the clock: time.time() is 0.0 .. MaxTime
MaxSessions == 2   \* recording sessions started

\* the pins of create_pin_configs that the model keeps: 1 and 2 are analog inputs
\* (CH0 IN, CH1 IN), 3 is a ground pin
Pins       == {1, 2, 3}
AnalogPins == {1, 2}
\* the pins whose calibration dialog the user opens
CalibratedPins == {1}

\* what the acquisition reads from a channel
ReadVoltages == {F(5, -1)}

\* what the user leaves in the calibration dialog when pressing OK: the four spin
\* boxes, the unit text and the check box
DialogFields ==
  { [point1_physical |-> F(1, 0), point1_voltage |-> F(0, 0),
     point2_physical |-> F(0, 0), point2_voltage |-> F(0, 0),
     unit_edit |-> "", enable_calibration |-> TRUE],
    [point1_physical |-> F(0, 0), point1_voltage |-> F(0, 0),
     point2_physical |-> F(1, 0), point2_voltage |-> F(5, 0),
     unit_edit |-> "m", enable_calibration |-> FALSE] }

get_calibration_data(fields) ==
  CalibrationData(fields.point1_physical, fields.point1_voltage,
                  fields.point2_physical, fields.point2_voltage,
                  IF fields.unit_edit = "" THEN "units" ELSE fields.unit_edit,
                  fields.enable_calibration)

\* the names create_pin_configs gives the pins
DefaultName(pin) ==
  IF pin = 1 THEN "Pressure_1" ELSE IF pin = 2 THEN "Pressure_2" ELSE "GND"

DefaultType(pin) == IF pin \in AnalogPins THEN "Analog Input" ELSE "Ground"

DefaultFunction(pin) ==
  IF pin = 1 THEN "CH0 IN" ELSE IF pin = 2 THEN "CH1 IN" ELSE "Ground"

\* the dataclass default of PinConfig.color
DefaultColor == "#1f77b4"

PinConfig(pin, cal) ==
  [pin_number |-> pin, name |-> DefaultName(pin), pin_type |-> DefaultType(pin),
   function |-> DefaultFunction(pin), is_analog_input |-> pin \in AnalogPins,
   is_active |-> FALSE, color |-> DefaultColor, calibration |-> cal]

\* the generated default configuration: every pin with the default calibration
create_pin_configs == [p \in Pins |-> PinConfig(p, DefaultCalibration)]

None == [exception |-> "None"]

\* the configuration file: absent, not JSON, or a JSON value
Missing       == [exists |-> FALSE]
Unparseable   == [exists |-> TRUE, parses |-> FALSE]
JsonFile(j)   == [exists |-> TRUE, parses |-> TRUE, json |-> j]

\* the ascending sequence of the pins in S
RECURSIVE SortedPins(_)
SortedPins(S) ==
  IF S = {} THEN <<>>
  ELSE LET least == CHOOSE x \in S : \A y \in S : x <= y
       IN  <<least>> \o SortedPins(S \ {least})

IsPrefix(s, t) == Len(s) <= Len(t) /\ SubSeq(t, 1, Len(s)) = s

----------------------------------------------------------------------------
VARIABLES
  call,                 \* the arguments of a call of apply_calibration
  ret,                  \* what the call returned, NotCalled before it
  pin_configs,          \* DAQMonitorApp.pin_configs, by pin number
  pin_buttons,          \* PinButton of each pin: [checked, is_monitoring]
  start_enabled,        \* start_button.isEnabled()
  stop_enabled,         \* stop_button.isEnabled()
  running,              \* RealDAQInterface.running
  active_pins,          \* RealDAQInterface.active_pins, a list
  thread,               \* the acquisition thread: "idle" or in run(), "run"
  scan,                 \* index of the next pin of active_pins to read, 0 between passes
  queue,                \* data_ready signals queued for the GUI thread
  is_recording,         \* DataRecorder.is_recording
  recorded_data,        \* DataRecorder.recorded_data
  recording_start_time, \* DataRecorder.recording_start_time
  active_pin_configs,   \* keys of DataRecorder.active_pin_configs (its values are
                        \* the PinConfig objects of pin_configs themselves)
  gui,                  \* where the GUI thread is: "idle", "save_dialog", "wait"
  path,                 \* the branch last taken by the record button or a delivery
  sessions,             \* how many sessions DataRecorder.start_recording created
  started_at,           \* the clock when the record button last started a session
  now,                  \* the clock, time.time()
  exported,             \* the file save_to_csv wrote in the step just taken (its
                        \* text and how the call ended), None if the step wrote none
  saved_file,           \* what stop_recording_and_save returned to stop_recording in
                        \* the step just taken, NotCalled if it did not return in it
  added,                \* the readings update_plot_data handed to add_data_point
                        \* since the record button last started a session
  emitted,              \* the readings the acquisition thread emitted since the
                        \* session that records started, empty when none records
  config_file,          \* daq_config.json on disk
  loaded,               \* what load_state returned last, NotCalled before
  daq_type,             \* the kind of device detect_daq_device found
  consecutive_errors,   \* the error counter of the acquisition loop
  plot_data             \* PlotWidget.plot_data: the buffers of the plotted channels

cal_vars      == <<call, ret>>
config_vars   == <<pin_configs>>
button_vars   == <<pin_buttons, start_enabled, stop_enabled>>
daq_vars      == <<running, active_pins>>
thread_vars   == <<thread, scan>>
recorder_vars == <<is_recording, recorded_data, recording_start_time, active_pin_configs>>
history_vars  == <<path, sessions, started_at, added, emitted>>
state_vars    == <<config_file, loaded>>
loop_vars     == <<daq_type, consecutive_errors>>

vars == <<call, ret, pin_configs, pin_buttons, start_enabled, stop_enabled, running,
          active_pins, thread, scan, queue, is_recording, recorded_data,
          recording_start_time, active_pin_configs, gui, path, sessions, started_at,
          now, exported, saved_file, added, emitted, config_file, loaded, daq_type,
          consecutive_errors, plot_data>>

NotCalled == [exception |-> "NotCalled"]

\* time.time()
time == F(now, 0)

----------------------------------------------------------------------------
(* The application after DAQMonitorApp.__init__, started without a saved    *)
(* configuration: create_pin_configs gives every pin the default            *)
(* calibration. (A saved daq_config.json restores the pin_configs an        *)
(* earlier run stored, which are those the calibration dialog reaches       *)
(* from these defaults.)                                                    *)

InitApp ==
  /\ pin_configs = create_pin_configs
  /\ pin_buttons = [p \in Pins |-> [checked |-> FALSE, is_monitoring |-> FALSE]]
  /\ start_enabled = TRUE
  /\ stop_enabled = FALSE
  /\ running = FALSE
  /\ active_pins = <<>>
  /\ thread = "idle"
  /\ scan = 0
  /\ queue = <<>>
  /\ is_recording = FALSE
  /\ recorded_data = <<>>
  /\ recording_start_time = None
  /\ active_pin_configs = <<>>
  /\ gui = "idle"
  /\ path = "none"
  /\ sessions = 0
  /\ started_at = 0
  /\ now = 0
  /\ exported = None
  /\ saved_file = NotCalled
  /\ added = <<>>
  /\ emitted = <<>>
  /\ config_file = Missing
  /\ loaded = NotCalled
  /\ plot_data = <<>>
  /\ daq_type = "MCC_ULDAQ"
  /\ consecutive_errors = 0

Init ==
  /\ InitApp
  /\ call = [voltage |-> F(0, 0), calibration |-> DefaultCalibration]
  /\ ret = NotCalled

----------------------------------------------------------------------------
(* One call of apply_calibration on any reading and any calibration.       *)

InitCal ==
  /\ call \in [voltage : Voltages, calibration : Calibrations]
  /\ ret = NotCalled
  /\ InitApp

ApplyCalibration ==
  /\ ret = NotCalled
  /\ ret' = apply_calibration(call.voltage, call.calibration)
  /\ UNCHANGED <<call, plot_data, state_vars, loop_vars, config_vars, button_vars, daq_vars, thread_vars, queue,
                 recorder_vars, gui, history_vars, now>>
  /\ exported' = None
  /\ saved_file' = NotCalled

NextCal == ApplyCalibration

SpecCal == InitCal /\ [][NextCal]_vars

----------------------------------------------------------------------------
(* RealDAQInterface: the list of active pins and the acquisition thread.   *)

Contains(list, x) == \E i \in 1..Len(list) : list[i] = x

\* an add_pin without the test of membership
add_pin_appends_always(list, pin_number) == Append(list, pin_number)

add_pin(list, pin_number) ==
  IF Contains(list, pin_number) THEN list ELSE Append(list, pin_number)

\* list.remove: the first occurrence goes
remove_pin(list, pin_number) ==
  IF ~Contains(list, pin_number) THEN list
  ELSE LET i == CHOOSE k \in 1..Len(list) :
                  list[k] = pin_number /\ \A j \in 1..(k - 1) : list[j] # pin_number
       IN  SubSeq(list, 1, i - 1) \o SubSeq(list, i + 1, Len(list))

\* add_pin for each pin of the ascending sequence pins
RECURSIVE add_pins(_, _)
add_pins(list, pins) ==
  IF pins = <<>> THEN list ELSE add_pins(add_pin(list, Head(pins)), Tail(pins))

\* One step of run(). scan is the index in active_pins of the next pin that
\* "for pin in self.active_pins" reads, 0 between two passes of the while loop.
\* The step is the test of "while self.running" (between passes) followed by the
\* read of one pin: the reading is emitted, or the read fails and the loop goes on.
\* The pass ends with the last pin of the list as the list is at that moment.
run ==
  /\ thread = "run"
  /\ IF scan = 0 /\ ~running
     THEN thread' = "idle" /\ UNCHANGED <<scan, queue>>
     ELSE LET i == IF scan = 0 THEN 1 ELSE scan
          IN  IF i > Len(active_pins)
              THEN scan' = 0 /\ UNCHANGED <<thread, queue>>
              ELSE /\ scan' = IF i + 1 > Len(active_pins) THEN 0 ELSE i + 1
                   /\ thread' = thread
                   /\ \/ /\ Len(queue) < MaxQueue
                         /\ Len(queue) + (IF is_recording THEN Len(recorded_data) ELSE 0)
                              < MaxSamples
                         /\ \E voltage \in ReadVoltages :
                               queue' = Append(queue, [pin |-> active_pins[i],
                                                        voltage |-> voltage])
                      \/ UNCHANGED queue
  /\ emitted' = IF is_recording /\ queue' # queue
                THEN Append(emitted, queue'[Len(queue')]) ELSE emitted
  /\ UNCHANGED <<cal_vars, plot_data, state_vars, loop_vars, config_vars, button_vars, daq_vars, recorder_vars, gui,
                 path, sessions, started_at, added, now>>
  /\ exported' = None
  /\ saved_file' = NotCalled

Tick ==
  /\ now < MaxTime
  /\ now' = now + 1
  /\ UNCHANGED <<cal_vars, plot_data, state_vars, loop_vars, config_vars, button_vars, daq_vars, thread_vars, queue,
                 recorder_vars, gui, history_vars>>
  /\ exported' = None
  /\ saved_file' = NotCalled

----------------------------------------------------------------------------
(* DataRecorder                                                             *)

\* start_recording with active_pins = active (pin_configs are kept by reference)
recorder_start_recording_keeps_first_time(active) ==
  /\ is_recording' = TRUE
  /\ recorded_data' = <<>>
  /\ recording_start_time' = IF recording_start_time = None THEN time
                             ELSE recording_start_time
  /\ active_pin_configs' = active
  /\ sessions' = sessions + 1

recorder_start_recording_keeps_samples(active) ==
  /\ is_recording' = TRUE
  /\ recorded_data' = recorded_data
  /\ recording_start_time' = time
  /\ active_pin_configs' = active
  /\ sessions' = sessions + 1

recorder_start_recording(active) ==
  /\ is_recording' = TRUE
  /\ recorded_data' = <<>>
  /\ recording_start_time' = time
  /\ active_pin_configs' = active
  /\ sessions' = sessions + 1

add_data_point_unguarded(pin_number, voltage, calibrated_value, timestamp) ==
  /\ recorded_data' = Append(recorded_data,
       [timestamp |-> timestamp,
        relative_time |-> IF recording_start_time = None THEN None
                          ELSE FSub(timestamp, recording_start_time),
        pin_number |-> pin_number,
        voltage |-> voltage,
        calibrated_value |-> calibrated_value])
  /\ UNCHANGED <<is_recording, recording_start_time, active_pin_configs>>

add_data_point_newest_first(pin_number, voltage, calibrated_value, timestamp) ==
  IF is_recording
  THEN /\ recorded_data' = <<[timestamp |-> timestamp,
                              relative_time |-> FSub(timestamp, recording_start_time),
                              pin_number |-> pin_number,
                              voltage |-> voltage,
                              calibrated_value |-> calibrated_value]>> \o recorded_data
       /\ UNCHANGED <<is_recording, recording_start_time, active_pin_configs>>
  ELSE UNCHANGED recorder_vars

add_data_point(pin_number, voltage, calibrated_value, timestamp) ==
  IF is_recording
  THEN /\ recorded_data' = Append(recorded_data,
            [timestamp |-> timestamp,
             relative_time |-> FSub(timestamp, recording_start_time),
             pin_number |-> pin_number,
             voltage |-> voltage,
             calibrated_value |-> calibrated_value])
       /\ UNCHANGED <<is_recording, recording_start_time, active_pin_configs>>
  ELSE UNCHANGED recorder_vars

----------------------------------------------------------------------------
(* DataRecorder.save_to_csv: the text of the file, cell by cell.            *)

RECURSIVE NToInt(_)
NToInt(a) == IF a = <<>> THEN 0 ELSE a[1] + 2 * NToInt(Tail(a))

\* f"{x:.<places>f}": the decimal nearest to x, ties to even, as its sign and the
\* integer |x| * 10^places rounded (123456 with places = 3 prints as 123.456);
\* computed on significands of any size
FormatFixedLong(x, places) ==
  LET num == NMul(NFromInt(10 ^ places), x.m)
      cut == -x.e
      int == IF cut <= 0 THEN NShl(num, -cut)
             ELSE LET kept   == SubSeq(num, cut + 1, Len(num))
                      guard  == NBit(num, cut)
                      sticky == \E j \in 1..(cut - 1) : NBit(num, j) = 1
                      up     == guard = 1 /\ (sticky \/ NBit(kept, 1) = 1)
                  IN  IF up THEN NAdd(kept, <<1>>) ELSE kept
  IN  [places |-> places, negative |-> x.neg, digits |-> NToInt(int)]

\* the same on machine integers, for values short enough to fit them
FormatFixed(x, places) ==
  IF Len(x.m) + (IF x.e > 0 THEN x.e ELSE 0) <= 10 /\ x.e >= -30 /\ places <= 6
  THEN LET n  == NToInt(x.m) * (10 ^ places) * (IF x.e > 0 THEN 2 ^ x.e ELSE 1)
           d  == IF x.e < 0 THEN 2 ^ (-x.e) ELSE 1
           q  == n \div d
           r  == n % d
           up == 2 * r > d \/ (2 * r = d /\ q % 2 = 1)
       IN  [places |-> places, negative |-> x.neg, digits |-> IF up THEN q + 1 ELSE q]
  ELSE FormatFixedLong(x, places)

\* the units of the model in the order sorted() gives strings
UnitOrder == <<"m", "psi", "units">>

KeyError == [exception |-> "KeyError"]

\* a cell of the header row
Header(text) == [text |-> text]

FixedHeaders ==
  << Header("Timestamp (Unix)"), Header("Relative Time (s)"), Header("Pin Number"),
     Header("Sensor Name"), Header("Voltage (V)") >>

\* 'Calibrated Value'
GenericHeader == Header("Calibrated Value")

\* the cell '' of a row
EmptyCell == [text |-> ""]

\* f'Calibrated Value ({unit})'
UnitHeader(unit) == [text |-> "Calibrated Value", unit |-> unit]

\* the units of the calibrated pins of the table, sorted; table is the sequence of
\* the keys of active_pin_configs, whose values are the PinConfig objects in configs
SessionUnits(table, configs) ==
  SelectSeq(UnitOrder, LAMBDA unit :
    \E i \in 1..Len(table) : /\ configs[table[i]].calibration.is_calibrated
                             /\ configs[table[i]].calibration.physical_unit = unit)

HeadersPerChannel(table, configs) ==
  LET calibrated == SelectSeq(table, LAMBDA pin : configs[pin].calibration.is_calibrated)
  IN  FixedHeaders
      \o [i \in 1..Len(calibrated) |->
            UnitHeader(configs[calibrated[i]].calibration.physical_unit)]
      \o (IF calibrated = <<>> THEN <<GenericHeader>> ELSE <<>>)

Headers(table, configs) ==
  LET units == SessionUnits(table, configs)
  IN  FixedHeaders \o [i \in 1..Len(units) |-> UnitHeader(units[i])]
                   \o (IF units = <<>> THEN <<GenericHeader>> ELSE <<>>)

\* the "# Pin ..." lines of the sensor configuration
ConfigLines(table, configs) ==
  [i \in 1..Len(table) |->
     LET config == configs[table[i]]
     IN  IF config.calibration.is_calibrated
         THEN [pin |-> table[i], name |-> config.name, calibrated_to |-> config.calibration]
         ELSE [pin |-> table[i], name |-> config.name, raw |-> "not calibrated"]]

RowValueInEveryColumn(data_point, table, configs) ==
  LET pin_config == configs[data_point.pin_number]
      units == SessionUnits(table, configs)
  IN  << FormatFixed(data_point.timestamp, 6),
         FormatFixed(data_point.relative_time, 3),
         data_point.pin_number,
         pin_config.name,
         FormatFixed(data_point.voltage, 6) >>
      \o (IF units # <<>>
          THEN [i \in 1..Len(units) |-> FormatFixed(data_point.calibrated_value, 6)]
          ELSE <<FormatFixed(data_point.voltage, 6)>>)

\* the row of a data point whose pin is a key of the table
Row(data_point, table, configs) ==
  LET pin_config == configs[data_point.pin_number]
      units == SessionUnits(table, configs)
  IN  << FormatFixed(data_point.timestamp, 6),
         FormatFixed(data_point.relative_time, 3),
         data_point.pin_number,
         pin_config.name,
         FormatFixed(data_point.voltage, 6) >>
      \o (IF pin_config.calibration.is_calibrated
          THEN [i \in 1..Len(units) |->
                  IF units[i] = pin_config.calibration.physical_unit
                  THEN FormatFixed(data_point.calibrated_value, 6) ELSE EmptyCell]
          ELSE IF units # <<>> THEN [i \in 1..Len(units) |-> EmptyCell]
          ELSE <<FormatFixed(data_point.voltage, 6)>>)

\* what save_to_csv leaves in the file and how it ends: the rows are written up to
\* the first data point whose pin is no key of active_pin_configs (KeyError)
save_to_csv(data, table, configs) ==
  LET missing == {i \in 1..Len(data) : ~Contains(table, data[i].pin_number)}
      written == IF missing = {} THEN Len(data)
                 ELSE (CHOOSE i \in missing : \A j \in missing : i <= j) - 1
  IN  [duration |-> Len(data),
       sensors  |-> ConfigLines(table, configs),
       headers  |-> Headers(table, configs),
       rows     |-> [i \in 1..written |-> Row(data[i], table, configs)],
       raised   |-> IF missing = {} THEN None ELSE KeyError]

----------------------------------------------------------------------------
(* DAQMonitorApp: the handlers of the GUI thread.                           *)

\* update_plot_data, the slot of data_ready
update_plot_data_recording_always(pin_number, voltage) ==
  LET pin_config == pin_configs[pin_number]
      calibrated_value == IF pin_config.calibration.is_calibrated
                          THEN apply_calibration(voltage, pin_config.calibration)
                          ELSE voltage
  IN  add_data_point_unguarded(pin_number, voltage, calibrated_value, time)

update_plot_data(pin_number, voltage) ==
  IF pin_number \in DOMAIN pin_configs
  THEN LET pin_config == pin_configs[pin_number]
           calibrated_value == IF pin_config.calibration.is_calibrated
                               THEN apply_calibration(voltage, pin_config.calibration)
                               ELSE voltage
       IN  IF is_recording
           THEN add_data_point(pin_number, voltage, calibrated_value, time)
           ELSE UNCHANGED recorder_vars
  ELSE UNCHANGED recorder_vars

\* the event loop of the GUI thread (also the one nested in the save dialog) takes
\* the oldest queued data_ready signal and runs its slot
Deliver ==
  /\ gui \in {"idle", "save_dialog"}
  /\ queue # <<>>
  /\ update_plot_data(Head(queue).pin, Head(queue).voltage)
  /\ queue' = Tail(queue)
  /\ path' = IF is_recording THEN "sample_appended" ELSE "sample_dropped"
  /\ added' = IF is_recording
              THEN Append(added, [pin_number |-> Head(queue).pin,
                                  voltage |-> Head(queue).voltage, timestamp |-> time])
              ELSE added
  /\ UNCHANGED <<cal_vars, plot_data, state_vars, loop_vars, config_vars, button_vars, daq_vars, thread_vars, gui,
                 sessions, started_at, emitted, now>>
  /\ exported' = None
  /\ saved_file' = NotCalled

\* the user clicks the check box of a pin whose button is enabled
toggle_pin(pin_number) ==
  LET checked == ~pin_buttons[pin_number].checked
  IN  /\ gui = "idle"
      /\ pin_configs[pin_number].is_analog_input
      /\ IF checked
         THEN /\ pin_buttons' = [pin_buttons EXCEPT ![pin_number] =
                                   [checked |-> TRUE, is_monitoring |-> TRUE]]
              /\ active_pins' = add_pin(active_pins, pin_number)
         ELSE /\ pin_buttons' = [pin_buttons EXCEPT ![pin_number] =
                                   [checked |-> FALSE, is_monitoring |-> FALSE]]
              /\ active_pins' = remove_pin(active_pins, pin_number)
      /\ UNCHANGED <<cal_vars, plot_data, state_vars, loop_vars, config_vars, start_enabled, stop_enabled, running,
                     thread_vars, queue, recorder_vars, gui, history_vars, now>>
      /\ exported' = None
      /\ saved_file' = NotCalled

\* PinNameEditor.open_calibration_dialog, the dialog accepted with these fields
open_calibration_dialog(pin_number, fields) ==
  /\ gui = "idle"
  /\ pin_configs[pin_number].is_analog_input
  /\ pin_configs' = [pin_configs EXCEPT ![pin_number].calibration =
                       get_calibration_data(fields)]
  /\ UNCHANGED <<cal_vars, plot_data, state_vars, loop_vars, button_vars, daq_vars, thread_vars, queue, recorder_vars,
                 gui, history_vars, now>>
  /\ exported' = None
  /\ saved_file' = NotCalled

\* the pins start_recording finds monitoring, in the order of pin_buttons
MonitoredPins ==
  SortedPins({p \in Pins : pin_buttons[p].is_monitoring /\ pin_configs[p].is_analog_input})

start_recording_unchecked ==
  /\ sessions < MaxSessions
  /\ recorder_start_recording(MonitoredPins)
  /\ start_enabled' = FALSE
  /\ stop_enabled' = FALSE
  /\ path' = "started"
  /\ started_at' = now
  /\ added' = <<>>
  /\ emitted' = <<>>
  /\ UNCHANGED <<cal_vars, plot_data, state_vars, loop_vars, config_vars, pin_buttons, daq_vars, thread_vars, queue,
                 gui, now>>
  /\ exported' = None
  /\ saved_file' = NotCalled

start_recording ==
  IF MonitoredPins = <<>>
  THEN /\ path' = "no_active_sensors"
       /\ UNCHANGED <<cal_vars, plot_data, state_vars, loop_vars, config_vars, button_vars, daq_vars, thread_vars,
                      queue, recorder_vars, gui, sessions, started_at, added, emitted,
                      now>>
       /\ exported' = None
       /\ saved_file' = NotCalled
  ELSE /\ sessions < MaxSessions
       /\ recorder_start_recording(MonitoredPins)
       /\ start_enabled' = FALSE
       /\ stop_enabled' = FALSE
       /\ path' = "started"
       /\ started_at' = now
       /\ added' = <<>>
       /\ emitted' = <<>>
       /\ UNCHANGED <<cal_vars, plot_data, state_vars, loop_vars, config_vars, pin_buttons, daq_vars, thread_vars,
                      queue, gui, now>>
       /\ exported' = None
       /\ saved_file' = NotCalled

\* the end of stop_recording: the monitoring controls come back
reenable_monitoring_controls ==
  /\ start_enabled' = ~running
  /\ stop_enabled' = running
  /\ UNCHANGED pin_buttons

\* DataRecorder.stop_recording_and_save on a recorder, up to the save dialog:
\* what it returns (NotCalled while the dialog is open), the recorder it
\* leaves and whether the dialog opens
stop_recording_and_save(recorder) ==
  IF ~recorder.is_recording
  THEN [returned |-> None, recorder |-> recorder, dialog |-> FALSE]
  ELSE IF recorder.recorded_data = <<>>
  THEN [returned |-> None, recorder |-> [recorder EXCEPT !.is_recording = FALSE],
        dialog |-> FALSE]
  ELSE [returned |-> NotCalled, recorder |-> [recorder EXCEPT !.is_recording = FALSE],
        dialog |-> TRUE]

\* stop_recording up to the return of stop_recording_and_save or, with samples to
\* save, up to the save dialog
stop_recording_flag_kept ==
  /\ is_recording
  /\ UNCHANGED recorder_vars
  /\ IF recorded_data = <<>>
     THEN /\ path' = "stop_empty"
          /\ reenable_monitoring_controls
          /\ UNCHANGED gui
     ELSE /\ path' = "stop_dialog"
          /\ gui' = "save_dialog"
          /\ UNCHANGED button_vars
  /\ UNCHANGED <<cal_vars, plot_data, state_vars, loop_vars, config_vars, daq_vars, thread_vars, queue, sessions,
                 started_at, added, now>>
  /\ emitted' = <<>>
  /\ exported' = None
  /\ saved_file' = IF recorded_data = <<>> THEN None ELSE NotCalled

stop_recording ==
  /\ is_recording
  /\ is_recording' = FALSE
  /\ UNCHANGED <<recorded_data, recording_start_time, active_pin_configs>>
  /\ IF recorded_data = <<>>
     THEN /\ path' = "stop_empty"
          /\ reenable_monitoring_controls
          /\ UNCHANGED gui
     ELSE /\ path' = "stop_dialog"
          /\ gui' = "save_dialog"
          /\ UNCHANGED button_vars
  /\ UNCHANGED <<cal_vars, plot_data, state_vars, loop_vars, config_vars, daq_vars, thread_vars, queue, sessions,
                 started_at, added, now>>
  /\ emitted' = <<>>
  /\ exported' = None
  /\ saved_file' = IF recorded_data = <<>> THEN None ELSE NotCalled

\* the save dialog returns: cancelled ("stop_cancelled"), or with a file name that
\* open() refuses ("stop_failed") or accepts ("stop_saved"); save_to_csv then writes
\* the file and may still raise; stop_recording_and_save returns, stop_recording ends
SaveDialogOutcomes == {"stop_cancelled", "stop_saved", "stop_failed"}

\* the file name the dialog returned
Filename == [filename |-> "daq_recording.csv"]

save_dialog_returns_discarding(outcome) ==
  LET written == save_to_csv(recorded_data, active_pin_configs, pin_configs)
      failed  == outcome = "stop_failed" \/ (outcome = "stop_saved" /\ written.raised # None)
  IN  /\ gui = "save_dialog"
      /\ gui' = "idle"
      /\ IF outcome = "stop_saved"
         THEN /\ exported' = written
              /\ saved_file' = IF written.raised = None THEN Filename ELSE None
              /\ path' = IF written.raised = None THEN "stop_saved" ELSE "stop_failed"
         ELSE /\ exported' = None
              /\ saved_file' = None
              /\ path' = outcome
      /\ recorded_data' = IF failed THEN <<>> ELSE recorded_data
      /\ reenable_monitoring_controls
      /\ UNCHANGED <<cal_vars, plot_data, state_vars, loop_vars, config_vars, daq_vars, thread_vars, queue, is_recording,
                     recording_start_time, active_pin_configs, sessions, started_at,
                     added, emitted, now>>

save_dialog_returns(outcome) ==
  LET written == save_to_csv(recorded_data, active_pin_configs, pin_configs)
  IN  /\ gui = "save_dialog"
      /\ gui' = "idle"
      /\ IF outcome = "stop_saved"
         THEN /\ exported' = written
              /\ saved_file' = IF written.raised = None THEN Filename ELSE None
              /\ path' = IF written.raised = None THEN "stop_saved" ELSE "stop_failed"
         ELSE /\ exported' = None
              /\ saved_file' = None
              /\ path' = outcome
      /\ reenable_monitoring_controls
      /\ UNCHANGED <<cal_vars, plot_data, state_vars, loop_vars, config_vars, daq_vars, thread_vars, queue, recorder_vars,
                     sessions, started_at, added, emitted, now>>

toggle_recording_always_starts ==
  /\ gui = "idle"
  /\ start_recording_unchecked

\* the record button
toggle_recording ==
  /\ gui = "idle"
  /\ IF ~is_recording THEN start_recording ELSE stop_recording

\* the start button: start_monitoring and RealDAQInterface.start_acquisition, whose
\* check of the device passes or fails
start_monitoring(verified) ==
  /\ gui = "idle"
  /\ start_enabled
  /\ pin_buttons' = [p \in Pins |->
       IF pin_buttons[p].checked /\ pin_configs[p].is_analog_input
       THEN [pin_buttons[p] EXCEPT !.is_monitoring = TRUE] ELSE pin_buttons[p]]
  /\ active_pins' = add_pins(active_pins,
       SortedPins({p \in Pins : pin_buttons[p].checked /\ pin_configs[p].is_analog_input}))
  /\ IF ~running /\ verified
     THEN /\ running' = TRUE
          /\ IF thread = "idle" THEN thread' = "run" /\ scan' = 0
                                ELSE UNCHANGED thread_vars
     ELSE UNCHANGED <<running, thread_vars>>
  /\ start_enabled' = FALSE
  /\ stop_enabled' = TRUE
  /\ UNCHANGED <<cal_vars, plot_data, state_vars, loop_vars, config_vars, queue, recorder_vars, gui, history_vars, now>>
  /\ exported' = None
  /\ saved_file' = NotCalled

\* the end of stop_monitoring, after stop_acquisition
monitoring_stopped ==
  /\ start_enabled' = TRUE
  /\ stop_enabled' = FALSE
  /\ pin_buttons' = [p \in Pins |-> [pin_buttons[p] EXCEPT !.is_monitoring = FALSE]]

\* the stop button: stop_monitoring up to the wait for the thread in stop_acquisition
\* (the button is disabled while a session records)
stop_monitoring ==
  /\ gui = "idle"
  /\ stop_enabled
  /\ ~is_recording
  /\ IF running
     THEN /\ running' = FALSE
          /\ IF thread = "idle"
             THEN monitoring_stopped /\ UNCHANGED gui
             ELSE gui' = "wait" /\ UNCHANGED button_vars
     ELSE monitoring_stopped /\ UNCHANGED <<running, gui>>
  /\ UNCHANGED <<cal_vars, plot_data, state_vars, loop_vars, config_vars, active_pins, thread_vars, queue, recorder_vars,
                 history_vars, now>>
  /\ exported' = None
  /\ saved_file' = NotCalled

\* QThread.wait returns when run has returned; stop_monitoring goes on
thread_joined ==
  /\ gui = "wait"
  /\ thread = "idle"
  /\ gui' = "idle"
  /\ monitoring_stopped
  /\ UNCHANGED <<cal_vars, plot_data, state_vars, loop_vars, config_vars, daq_vars, thread_vars, queue, recorder_vars,
                 history_vars, now>>
  /\ exported' = None
  /\ saved_file' = NotCalled

Next ==
  \/ \E pin \in Pins : toggle_pin(pin)
  \/ \E pin \in CalibratedPins, fields \in DialogFields :
        open_calibration_dialog(pin, fields)
  \/ toggle_recording
  \/ \E outcome \in SaveDialogOutcomes : save_dialog_returns(outcome)
  \/ \E verified \in BOOLEAN : start_monitoring(verified)
  \/ stop_monitoring
  \/ thread_joined
  \/ Deliver
  \/ run
  \/ Tick

Spec == Init /\ [][Next]_vars

----------------------------------------------------------------------------
(* One export: the save dialog is open on a stopped session whose samples,  *)
(* channel table and pin calibrations are any the bounds allow.             *)

MaxRows == 6   \* samples of the stopped session

CsvCalibrations ==
  { DefaultCalibration,
    CalibrationData(F(0, 0), F(0, 0), F(1, 0), F(5, 0), "psi", TRUE),
    CalibrationData(F(0, 0), F(0, 0), F(1, 0), F(5, 0), "m", TRUE) }

\* the i-th sample of the session, read on this pin at time i
CsvSample(i, pin) ==
  [timestamp |-> F(i, 0), relative_time |-> F(i, 0), pin_number |-> pin,
   voltage |-> F(5, -1), calibrated_value |-> F(1, -1)]

InitCsv ==
  \E cals \in [AnalogPins -> CsvCalibrations],
     table \in {SortedPins(S) : S \in (SUBSET AnalogPins) \ {{}}},
     n \in 1..MaxRows :
    \E pins \in [1..n -> AnalogPins] :
      /\ pin_configs = [p \in Pins |->
           PinConfig(p, IF p \in AnalogPins THEN cals[p] ELSE DefaultCalibration)]
      /\ active_pin_configs = table
      /\ recorded_data = [i \in 1..n |-> CsvSample(i, pins[i])]
      /\ recording_start_time = F(0, 0)
      /\ is_recording = FALSE
      /\ pin_buttons = [p \in Pins |->
           [checked |-> p \in AnalogPins, is_monitoring |-> p \in AnalogPins]]
      /\ active_pins = SortedPins(AnalogPins)
      /\ start_enabled = FALSE
      /\ stop_enabled = FALSE
      /\ running = TRUE
      /\ thread = "run"
      /\ scan = 0
      /\ queue = <<>>
      /\ gui = "save_dialog"
      /\ path = "stop_dialog"
      /\ sessions = 1
      /\ started_at = 0
      /\ now = MaxTime
      /\ exported = None
      /\ saved_file = NotCalled
      /\ emitted = <<>>
      /\ config_file = Missing
      /\ loaded = NotCalled
      /\ plot_data = <<>>
      /\ daq_type = "MCC_ULDAQ"
      /\ consecutive_errors = 0
      /\ added = [i \in 1..n |-> [pin_number |-> pins[i], voltage |-> F(5, -1),
                                   timestamp |-> F(i, 0)]]
      /\ call = [voltage |-> F(0, 0), calibration |-> DefaultCalibration]
      /\ ret = NotCalled

NextCsv == \E outcome \in SaveDialogOutcomes : save_dialog_returns(outcome)

SpecCsv == InitCsv /\ [][NextCsv]_vars

----------------------------------------------------------------------------
(* json.dump and json.load on the values StateManager stores.               *)

RECURSIVE NPow10(_)
NPow10(k) == IF k = 0 THEN <<1>> ELSE NMul(NPow10(k - 1), <<0, 1, 0, 1>>)

\* the decimal number (-1)^neg * digits * 10^exp10 of a JSON number token
Decimal(neg, digits, exp10) == [neg |-> neg, digits |-> digits, exp10 |-> exp10]

\* n / d for d # 0, rounded to a float: as FDiv, on integers of any size
RoundRatio(neg, n, d) ==
  IF n = <<>> THEN Zero
  ELSE LET k  == IF Len(d) > Len(n)
                 THEN Precision + 2 + Len(d) - Len(n) ELSE Precision + 2
           qr == NDivMod(NShl(n, k), d)
           st == IF qr[2] = <<>> THEN 0 ELSE 1
       IN  Round(Dy(neg, <<st>> \o qr[1], -k - 1))

\* float(text) for the text of a decimal number: the nearest float, ties to even
ParseFloat(dec) ==
  IF dec.exp10 >= 0
  THEN Round(Dy(dec.neg, NMul(dec.digits, NPow10(dec.exp10)), 0))
  ELSE RoundRatio(dec.neg, dec.digits, NPow10(-dec.exp10))

\* the digits of the multiple of 10^p that float.__repr__ would print for x # 0 if
\* it stopped at the decimal position p: the multiple nearest to |x| if float()
\* reads it back as x, else none (<<>>); for a power of two, whose neighbours are
\* not at equal distances, also the multiple on the other side of |x|
ReprDigitsAt(x, p) ==
  LET n    == NMul(NShl(x.m, IF x.e > 0 THEN x.e ELSE 0), NPow10(IF p < 0 THEN -p ELSE 0))
      d    == NShl(NPow10(IF p > 0 THEN p ELSE 0), IF x.e < 0 THEN -x.e ELSE 0)
      qr   == NDivMod(n, d)
      r2   == NShl(qr[2], 1)
      down == NLess(r2, d) \/ (r2 = d /\ NBit(qr[1], 1) = 0)
      up   == NAdd(qr[1], <<1>>)
      near == IF down THEN qr[1] ELSE up
      far  == IF down THEN up ELSE qr[1]
      back(digits) == digits # <<>> /\ ParseFloat(Decimal(x.neg, digits, p)) = x
  IN  IF back(near) THEN near
      ELSE IF x.m = <<1>> /\ back(far) THEN far ELSE <<>>

RECURSIVE ReprFrom(_, _)
ReprFrom(x, p) ==
  LET digits == ReprDigitsAt(x, p)
  IN  IF digits # <<>> THEN Decimal(x.neg, digits, p) ELSE ReprFrom(x, p - 1)

\* float.__repr__: the shortest decimal number that float() reads back as x, and
\* the nearest to x of those; the search starts at a power of ten above |x|
float_repr(x) ==
  IF IsZero(x) THEN Decimal(FALSE, <<>>, 0)
  ELSE LET bits == Len(x.m) + x.e
       IN  ReprFrom(x, IF bits > 0 THEN (bits * 31) \div 100 + 1
                       ELSE 1 - ((-bits) * 30) \div 100)

(* A Python str is the sequence of its code points; the text of a JSON      *)
(* string in the file is the sequence of the ASCII characters between its   *)
(* quotes.                                                                  *)

\* '{0:04x}'.format(n)
HexDigit(v) == IF v < 10 THEN 48 + v ELSE 87 + v

Hex4(n) ==
  <<HexDigit(n \div 4096), HexDigit((n \div 256) % 16), HexDigit((n \div 16) % 16),
    HexDigit(n % 16)>>

\* '\\u{0:04x}'.format(n)
UEscape(n) == <<92, 117>> \o Hex4(n)

\* json.encoder's replacement of one character under ensure_ascii: the quote,
\* the backslash and every character outside ' '..'~' are escaped, a code point
\* above 0xffff as a surrogate pair
EncodeChar(c) ==
  CASE c = 34 -> <<92, 34>>
    [] c = 92 -> <<92, 92>>
    [] c = 10 -> <<92, 110>>
    [] c = 13 -> <<92, 114>>
    [] c = 9  -> <<92, 116>>
    [] c = 12 -> <<92, 102>>
    [] c = 8  -> <<92, 98>>
    [] OTHER  ->
         IF c >= 32 /\ c <= 126 THEN <<c>>
         ELSE IF c < 65536 THEN UEscape(c)
         ELSE LET n == c - 65536
              IN  UEscape(55296 + ((n \div 1024) % 1024)) \o UEscape(56320 + (n % 1024))

RECURSIVE py_encode_basestring_ascii(_)
py_encode_basestring_ascii(s) ==
  IF s = <<>> THEN <<>>
  ELSE EncodeChar(Head(s)) \o py_encode_basestring_ascii(Tail(s))

\* int(esc, 16) of one digit
HexValue(c) ==
  IF c >= 48 /\ c <= 57 THEN c - 48
  ELSE IF c >= 97 /\ c <= 102 THEN c - 87 ELSE c - 55

\* the four hexadecimal digits at s[i..i+3]
Hex4Value(s, i) ==
  HexValue(s[i]) * 4096 + HexValue(s[i + 1]) * 256 + HexValue(s[i + 2]) * 16
    + HexValue(s[i + 3])

\* json.decoder's BACKSLASH table
Unescape(c) ==
  CASE c = 34  -> 34
    [] c = 92  -> 92
    [] c = 47  -> 47
    [] c = 98  -> 8
    [] c = 102 -> 12
    [] c = 110 -> 10
    [] c = 114 -> 13
    [] c = 116 -> 9

\* a decoder that reads every \uXXXX as a character of its own
RECURSIVE scanstring_unpaired(_, _)
scanstring_unpaired(s, i) ==
  IF i > Len(s) THEN <<>>
  ELSE IF s[i] # 92 THEN <<s[i]>> \o scanstring_unpaired(s, i + 1)
  ELSE IF s[i + 1] # 117 THEN <<Unescape(s[i + 1])>> \o scanstring_unpaired(s, i + 2)
  ELSE <<Hex4Value(s, i + 2)>> \o scanstring_unpaired(s, i + 6)

DecodeStringUnpaired(s) == scanstring_unpaired(s, 1)

\* json.decoder.py_scanstring from s[i] on: a high surrogate followed by the
\* escape of a low surrogate is one code point
RECURSIVE py_scanstring(_, _)
py_scanstring(s, i) ==
  IF i > Len(s) THEN <<>>
  ELSE IF s[i] # 92 THEN <<s[i]>> \o py_scanstring(s, i + 1)
  ELSE IF s[i + 1] # 117 THEN <<Unescape(s[i + 1])>> \o py_scanstring(s, i + 2)
  ELSE LET uni    == Hex4Value(s, i + 2)
           paired == /\ uni >= 55296 /\ uni <= 56319
                     /\ i + 11 <= Len(s) /\ s[i + 6] = 92 /\ s[i + 7] = 117
                     /\ Hex4Value(s, i + 8) >= 56320 /\ Hex4Value(s, i + 8) <= 57343
       IN  IF paired
           THEN <<65536 + (uni - 55296) * 1024 + (Hex4Value(s, i + 8) - 56320)>>
                  \o py_scanstring(s, i + 12)
           ELSE <<uni>> \o py_scanstring(s, i + 6)

DecodeString(s) == py_scanstring(s, 1)

\* int.__repr__ of n >= 0: its decimal digits, the most significant first
RECURSIVE IntDigits(_)
IntDigits(n) == IF n < 10 THEN <<n>> ELSE Append(IntDigits(n \div 10), n % 10)

\* int() of a sequence of decimal digits
RECURSIVE DigitsInt(_)
DigitsInt(d) ==
  IF d = <<>> THEN 0 ELSE DigitsInt(SubSeq(d, 1, Len(d) - 1)) * 10 + d[Len(d)]

(* Python values with their type, and the JSON values of the file. A dict  *)
(* and a JSON object are sequences of <<key, value>> in insertion order.   *)
Py(type, value) == [type |-> type, value |-> value]

\* the floats the persisted calibrations are drawn from
OneTenth == ParseFloat(Decimal(FALSE, <<1>>, -1))
StateFloats == {F(0, 0), F(1, 0), F(5, 0), F(5, -1), OneTenth,
                ParseFloat(Decimal(FALSE, NFromInt(147), -1)),
                ParseFloat(Decimal(TRUE, NFromInt(27315), -2))}

\* float.__repr__ and float() on those
ReprOf      == [x \in StateFloats |-> float_repr(x)]
ParsedFloat == [d \in {ReprOf[x] : x \in StateFloats} |-> ParseFloat(d)]

RECURSIVE json_dump(_)
json_dump(v) ==
  CASE v.type = "str"      -> [kind |-> "string", text |-> py_encode_basestring_ascii(v.value)]
    [] v.type = "int"      -> [kind |-> "int", neg |-> v.value < 0,
                               digits |-> IntDigits(IF v.value < 0 THEN -v.value ELSE v.value)]
    [] v.type = "float"    -> [kind |-> "float", repr |-> ReprOf[v.value]]
    [] v.type = "bool"     -> [kind |-> "bool", value |-> v.value]
    [] v.type = "NoneType" -> [kind |-> "null"]
    [] v.type = "list"     -> [kind |-> "array",
                               items |-> [i \in 1..Len(v.value) |-> json_dump(v.value[i])]]
    [] v.type = "dict"     -> [kind |-> "object",
                               members |-> [i \in 1..Len(v.value) |->
                                 <<py_encode_basestring_ascii(v.value[i][1]),
                                   json_dump(v.value[i][2])>>]]

RECURSIVE json_load(_)
json_load(j) ==
  CASE j.kind = "string" -> Py("str", DecodeString(j.text))
    [] j.kind = "int"    -> Py("int", IF j.neg THEN -DigitsInt(j.digits) ELSE DigitsInt(j.digits))
    [] j.kind = "float"  -> Py("float", ParsedFloat[j.repr])
    [] j.kind = "bool"   -> Py("bool", j.value)
    [] j.kind = "null"   -> Py("NoneType", None)
    [] j.kind = "array"  -> Py("list", [i \in 1..Len(j.items) |-> json_load(j.items[i])])
    [] j.kind = "object" -> Py("dict", [i \in 1..Len(j.members) |->
                               <<DecodeString(j.members[i][1]), json_load(j.members[i][2])>>])

\* key in d
HasKey(d, key) == \E i \in 1..Len(d.value) : d.value[i][1] = key

\* d[key]: of the members of an object read from a file the last one counts
Item(d, key) ==
  LET last == CHOOSE i \in 1..Len(d.value) :
                /\ d.value[i][1] = key
                /\ \A k \in (i + 1)..Len(d.value) : d.value[k][1] # key
  IN  d.value[last][2]

\* the code points of the string literals of the source
Chars(s) ==
  CASE s = "version" -> <<118, 101, 114, 115, 105, 111, 110>>
    [] s = "1.0" -> <<49, 46, 48>>
    [] s = "timestamp" -> <<116, 105, 109, 101, 115, 116, 97, 109, 112>>
    [] s = "pin_configs" -> <<112, 105, 110, 95, 99, 111, 110, 102, 105, 103, 115>>
    [] s = "pin_number" -> <<112, 105, 110, 95, 110, 117, 109, 98, 101, 114>>
    [] s = "name" -> <<110, 97, 109, 101>>
    [] s = "pin_type" -> <<112, 105, 110, 95, 116, 121, 112, 101>>
    [] s = "function" -> <<102, 117, 110, 99, 116, 105, 111, 110>>
    [] s = "is_analog_input" -> <<105, 115, 95, 97, 110, 97, 108, 111, 103, 95, 105, 110, 112, 117, 116>>
    [] s = "calibration" -> <<99, 97, 108, 105, 98, 114, 97, 116, 105, 111, 110>>
    [] s = "point1_physical" -> <<112, 111, 105, 110, 116, 49, 95, 112, 104, 121, 115, 105, 99, 97, 108>>
    [] s = "point1_voltage" -> <<112, 111, 105, 110, 116, 49, 95, 118, 111, 108, 116, 97, 103, 101>>
    [] s = "point2_physical" -> <<112, 111, 105, 110, 116, 50, 95, 112, 104, 121, 115, 105, 99, 97, 108>>
    [] s = "point2_voltage" -> <<112, 111, 105, 110, 116, 50, 95, 118, 111, 108, 116, 97, 103, 101>>
    [] s = "physical_unit" -> <<112, 104, 121, 115, 105, 99, 97, 108, 95, 117, 110, 105, 116>>
    [] s = "is_calibrated" -> <<105, 115, 95, 99, 97, 108, 105, 98, 114, 97, 116, 101, 100>>
    [] s = "Pressure_1" -> <<80, 114, 101, 115, 115, 117, 114, 101, 95, 49>>
    [] s = "Pressure_2" -> <<80, 114, 101, 115, 115, 117, 114, 101, 95, 50>>
    [] s = "GND" -> <<71, 78, 68>>
    [] s = "Analog Input" -> <<65, 110, 97, 108, 111, 103, 32, 73, 110, 112, 117, 116>>
    [] s = "Ground" -> <<71, 114, 111, 117, 110, 100>>
    [] s = "CH0 IN" -> <<67, 72, 48, 32, 73, 78>>
    [] s = "CH1 IN" -> <<67, 72, 49, 32, 73, 78>>
    [] s = "m" -> <<109>>
    [] s = "#1f77b4" -> <<35, 49, 102, 55, 55, 98, 52>>

\* a configuration with its texts as code points
AsText(config) ==
  [config EXCEPT !.name = Chars(@), !.pin_type = Chars(@), !.function = Chars(@),
                 !.calibration.physical_unit = Chars(@)]

(* StateManager *)

\* datetime.now().isoformat(), here the seconds of the clock in digits
isoformat == [i \in 1..Len(IntDigits(now)) |-> 48 + IntDigits(now)[i]]

\* the entry save_state stores for one pin: is_active and color are not stored
PinData(config) ==
  Py("dict",
     <<<<Chars("pin_number"), Py("int", config.pin_number)>>,
       <<Chars("name"), Py("str", config.name)>>,
       <<Chars("pin_type"), Py("str", config.pin_type)>>,
       <<Chars("function"), Py("str", config.function)>>,
       <<Chars("is_analog_input"), Py("bool", config.is_analog_input)>>,
       <<Chars("calibration"),
         Py("dict",
            <<<<Chars("point1_physical"), Py("float", config.calibration.point1_physical)>>,
              <<Chars("point1_voltage"), Py("float", config.calibration.point1_voltage)>>,
              <<Chars("point2_physical"), Py("float", config.calibration.point2_physical)>>,
              <<Chars("point2_voltage"), Py("float", config.calibration.point2_voltage)>>,
              <<Chars("physical_unit"), Py("str", config.calibration.physical_unit)>>,
              <<Chars("is_calibrated"), Py("bool", config.calibration.is_calibrated)>>
            >>)>>
     >>)

StateData(configs) ==
  Py("dict",
     <<<<Chars("version"), Py("str", Chars("1.0"))>>,
       <<Chars("timestamp"), Py("str", isoformat)>>,
       <<Chars("pin_configs"), Py("list", [i \in 1..Len(configs) |-> PinData(configs[i])])>>
     >>)

\* the list load_state returns
Loaded(configs) == [pin_configs |-> configs]

CalibrationKeys ==
  {Chars("point1_physical"), Chars("point1_voltage"), Chars("point2_physical"),
   Chars("point2_voltage"), Chars("physical_unit"), Chars("is_calibrated")}

PinKeys ==
  {Chars("pin_number"), Chars("name"), Chars("pin_type"), Chars("function"),
   Chars("is_analog_input")}

\* the subscripts of load_state on one entry raise nothing
Subscriptable(pin_data) ==
  /\ pin_data.type = "dict"
  /\ HasKey(pin_data, Chars("calibration"))
  /\ Item(pin_data, Chars("calibration")).type = "dict"
  /\ \A key \in CalibrationKeys : HasKey(Item(pin_data, Chars("calibration")), key)
  /\ \A key \in PinKeys : HasKey(pin_data, key)

\* the PinConfig load_state builds of one entry: is_active and color are the
\* defaults of the dataclass
LoadedPin(pin_data) ==
  LET cal_data == Item(pin_data, Chars("calibration"))
  IN  [pin_number      |-> Item(pin_data, Chars("pin_number")).value,
       name            |-> Item(pin_data, Chars("name")).value,
       pin_type        |-> Item(pin_data, Chars("pin_type")).value,
       function        |-> Item(pin_data, Chars("function")).value,
       is_analog_input |-> Item(pin_data, Chars("is_analog_input")).value,
       is_active       |-> FALSE,
       color           |-> DefaultColor,
       calibration     |->
         CalibrationData(Item(cal_data, Chars("point1_physical")).value,
                         Item(cal_data, Chars("point1_voltage")).value,
                         Item(cal_data, Chars("point2_physical")).value,
                         Item(cal_data, Chars("point2_voltage")).value,
                         Item(cal_data, Chars("physical_unit")).value,
                         Item(cal_data, Chars("is_calibrated")).value)]

\* the element of a set of one element; with the set built over {e}, e is
\* evaluated once
Only(S) == CHOOSE v \in S : TRUE

\* the loop of load_state over the entries
LoadEntries(entries) ==
  IF entries.type \notin {"list", "dict", "str"} THEN None
  ELSE IF entries.value = <<>> THEN Loaded(<<>>)
  ELSE IF entries.type # "list" THEN None
  ELSE IF \A i \in 1..Len(entries.value) : Subscriptable(entries.value[i])
       THEN Loaded([i \in 1..Len(entries.value) |-> LoadedPin(entries.value[i])])
       ELSE None

\* load_state on the value json.load returned
LoadData(state_data) ==
  IF state_data.type # "dict" THEN None
  ELSE Only({LoadEntries(entries) :
               entries \in {IF HasKey(state_data, Chars("pin_configs"))
                            THEN Item(state_data, Chars("pin_configs"))
                            ELSE Py("list", <<>>)}})

\* load_state on the file: None for every exception
load_state(file) ==
  IF ~file.exists THEN None
  ELSE IF ~file.parses THEN None
  ELSE Only({LoadData(state_data) : state_data \in {json_load(file.json)}})

\* DAQMonitorApp.save_state with StateManager.save_state: the file is replaced
\* unless it cannot be opened for writing
save_state(can_write) ==
  /\ config_file' = IF can_write
                    THEN Only({JsonFile(json_dump(v)) : v \in {StateData(pin_configs)}})
                    ELSE config_file
  /\ path' = IF can_write THEN "state_saved" ELSE "state_save_failed"
  /\ loaded' = NotCalled
  /\ exported' = None
  /\ saved_file' = NotCalled
  /\ UNCHANGED <<cal_vars, plot_data, loop_vars, config_vars, button_vars, daq_vars, thread_vars, queue,
                 recorder_vars, gui, sessions, started_at, added, emitted, now>>

\* a variant that returns whatever list load_state gave, the empty one too
load_or_create_pin_configs_any_list ==
  /\ loaded' = load_state(config_file)
  /\ pin_configs' = IF loaded' # None THEN loaded'.pin_configs
                    ELSE [p \in Pins |-> AsText(create_pin_configs[p])]
  /\ path' = IF loaded' # None THEN "configs_loaded" ELSE "configs_created"
  /\ exported' = None
  /\ saved_file' = NotCalled
  /\ UNCHANGED <<cal_vars, plot_data, loop_vars, config_file, button_vars, daq_vars, thread_vars, queue,
                 recorder_vars, gui, sessions, started_at, added, emitted, now>>

\* load_or_create_pin_configs at the start of the application: the loaded list
\* if it is a non-empty list, the generated defaults otherwise
load_or_create_pin_configs ==
  /\ loaded' = load_state(config_file)
  /\ pin_configs' = IF loaded' # None /\ loaded'.pin_configs # <<>>
                    THEN loaded'.pin_configs
                    ELSE [p \in Pins |-> AsText(create_pin_configs[p])]
  /\ path' = IF loaded' # None /\ loaded'.pin_configs # <<>>
             THEN "configs_loaded" ELSE "configs_created"
  /\ exported' = None
  /\ saved_file' = NotCalled
  /\ UNCHANGED <<cal_vars, plot_data, loop_vars, config_file, button_vars, daq_vars, thread_vars, queue,
                 recorder_vars, gui, sessions, started_at, added, emitted, now>>

(* The configurations and the files the persistence is checked on.         *)
MaxPins == 2

Celsius == <<176, 67>>

StateConfigs ==
  {AsText(PinConfig(1, DefaultCalibration)),
   [pin_number |-> 2, name |-> <<34, 92, 47>>, pin_type |-> Chars("Analog Input"),
    function |-> Chars("CH1 IN"), is_analog_input |-> TRUE, is_active |-> TRUE,
    color |-> DefaultColor,
    calibration |-> CalibrationData(OneTenth, F(5, -1),
                      ParseFloat(Decimal(FALSE, NFromInt(147), -1)), F(5, 0),
                      <<112, 115, 105>>, TRUE)],
   [pin_number |-> 12, name |-> <<>>, pin_type |-> Chars("Ground"),
    function |-> Chars("Ground"), is_analog_input |-> FALSE, is_active |-> FALSE,
    color |-> DefaultColor,
    calibration |-> CalibrationData(ParseFloat(Decimal(TRUE, NFromInt(27315), -2)),
                      F(0, 0), F(1, 0), F(5, 0), Celsius, FALSE)],
   [pin_number |-> 1, name |-> <<10, 127, 233, 9>>, pin_type |-> Chars("Analog Input"),
    function |-> Chars("CH0 IN"), is_analog_input |-> TRUE, is_active |-> FALSE,
    color |-> DefaultColor,
    calibration |-> CalibrationData(F(0, 0), F(1, 0), F(5, 0), F(5, 0), Chars("m"), TRUE)],
   [pin_number |-> 2, name |-> <<80, 128512>>, pin_type |-> Chars("Analog Input"),
    function |-> Chars("CH1 IN"), is_analog_input |-> TRUE, is_active |-> FALSE,
    color |-> DefaultColor, calibration |-> AsText(PinConfig(2, DefaultCalibration)).calibration]}

StateLists == UNION {[1..n -> StateConfigs] : n \in 1..MaxPins}

\* a dict without one of its keys
Without(d, key) ==
  LET keep(member) == member[1] # key
  IN  Py("dict", SelectSeq(d.value, keep))

GoodPin == PinData(AsText(PinConfig(1, DefaultCalibration)))

WithEntries(entries) == Py("dict", <<<<Chars("pin_configs"), entries>>>>)

\* an entry as another program writes it: the keys in another order, the
\* solidus escaped, the hexadecimal digits in capitals ("P\/é")
ForeignPin ==
  LET written == json_dump(GoodPin)
      name    == [kind |-> "string", text |-> <<80, 92, 47, 92, 117, 48, 48, 69, 57>>]
  IN  [written EXCEPT !.members =
         <<written.members[6], <<Chars("name"), name>>, written.members[1],
           written.members[3], written.members[4], written.members[5]>>]

\* files that parse and on which load_state raises: the top level is no
\* object, the entries cannot be iterated, an entry is no object or lacks a key
IncompleteJson ==
  {json_dump(v) : v \in
     {Py("list", <<>>), Py("NoneType", None),
      WithEntries(Py("NoneType", None)), WithEntries(Py("int", 7)),
      WithEntries(Py("str", Chars("m"))),
      WithEntries(Py("dict", <<<<Chars("name"), Py("int", 1)>>>>)),
      WithEntries(Py("list", <<Without(GoodPin, Chars("calibration"))>>)),
      WithEntries(Py("list", <<Without(GoodPin, Chars("name"))>>)),
      WithEntries(Py("list", <<GoodPin, Py("int", 5)>>)),
      WithEntries(Py("list", <<[GoodPin EXCEPT !.value[6][2] =
                                  Without(@, Chars("is_calibrated"))]>>)),
      WithEntries(Py("list", <<[GoodPin EXCEPT !.value[6][2] = Py("list", <<>>)]>>))}}

\* files that parse and hold no entry
EmptyJson ==
  {json_dump(v) : v \in
     {Py("dict", <<>>), WithEntries(Py("list", <<>>)), WithEntries(Py("dict", <<>>)),
      WithEntries(Py("str", <<>>)),
      Py("dict", <<<<Chars("pin_configs"), Py("list", <<GoodPin>>)>>,
                   <<Chars("pin_configs"), Py("list", <<>>)>>>>)}}

ForeignJson ==
  [kind |-> "object", members |->
     <<<<Chars("pin_configs"), [kind |-> "array", items |-> <<ForeignPin>>]>>>>]

InitialFiles ==
  {Missing, Unparseable}
    \cup {JsonFile(j) : j \in IncompleteJson \cup EmptyJson \cup {ForeignJson}}

InitState ==
  /\ pin_configs \in StateLists
  /\ config_file \in InitialFiles
  /\ loaded = NotCalled
  /\ plot_data = <<>>
  /\ daq_type = "MCC_ULDAQ"
  /\ consecutive_errors = 0
  /\ pin_buttons = [p \in Pins |-> [checked |-> FALSE, is_monitoring |-> FALSE]]
  /\ start_enabled = TRUE
  /\ stop_enabled = FALSE
  /\ running = FALSE
  /\ active_pins = <<>>
  /\ thread = "idle"
  /\ scan = 0
  /\ queue = <<>>
  /\ is_recording = FALSE
  /\ recorded_data = <<>>
  /\ recording_start_time = None
  /\ active_pin_configs = <<>>
  /\ gui = "idle"
  /\ path = "none"
  /\ sessions = 0
  /\ started_at = 0
  /\ now = 0
  /\ exported = None
  /\ saved_file = NotCalled
  /\ added = <<>>
  /\ emitted = <<>>
  /\ call = [voltage |-> F(0, 0), calibration |-> DefaultCalibration]
  /\ ret = NotCalled

NextState ==
  \/ \E can_write \in BOOLEAN : save_state(can_write)
  \/ load_or_create_pin_configs

SpecState == InitState /\ [][NextState]_vars

----------------------------------------------------------------------------
(* RealDAQInterface.run with its error counter, start_acquisition and      *)
(* stop_acquisition. The thread is "idle" before start() and after run has *)
(* returned, "run" at the test of the while loop and "read" inside an      *)
(* iteration. Whether a read raises is the device's choice.                *)

\* the kinds of device detect_daq_device leaves in daq_type when it returns
DaqTypes == {"MCC_ULDAQ", "USB_MCC", "SERIAL_MCC"}

max_consecutive_errors == 5

\* a start_acquisition that starts a loop whatever the flag says
start_acquisition_unguarded(verified) ==
  /\ gui = "idle"
  /\ IF daq_type = "MCC_ULDAQ" /\ ~verified
     THEN /\ path' = "verification_failed"
          /\ UNCHANGED <<running, thread, consecutive_errors>>
     ELSE /\ running' = TRUE
          /\ thread' = IF thread = "idle" THEN "run" ELSE thread
          /\ consecutive_errors' = IF thread = "idle" THEN 0 ELSE consecutive_errors
          /\ path' = "acquisition_started"
  /\ UNCHANGED <<cal_vars, plot_data, state_vars, daq_type, config_vars, button_vars, active_pins,
                 scan, queue, recorder_vars, gui, sessions, started_at, added, emitted,
                 now, exported, saved_file>>

\* start_acquisition: nothing while running is set; no start when the device
\* cannot be verified or reconnected; else the flag is set and start() runs
\* run from its beginning, where the counter is 0
start_acquisition(verified) ==
  /\ gui = "idle"
  /\ IF running
     THEN /\ path' = "start_ignored"
          /\ UNCHANGED <<running, thread, consecutive_errors>>
     ELSE IF daq_type = "MCC_ULDAQ" /\ ~verified
     THEN /\ path' = "verification_failed"
          /\ UNCHANGED <<running, thread, consecutive_errors>>
     ELSE /\ running' = TRUE
          /\ thread' = IF thread = "idle" THEN "run" ELSE thread
          /\ consecutive_errors' = IF thread = "idle" THEN 0 ELSE consecutive_errors
          /\ path' = "acquisition_started"
  /\ UNCHANGED <<cal_vars, plot_data, state_vars, daq_type, config_vars, button_vars, active_pins,
                 scan, queue, recorder_vars, gui, sessions, started_at, added, emitted,
                 now, exported, saved_file>>

\* while self.running
while_running ==
  /\ thread = "run"
  /\ thread' = IF running THEN "read" ELSE "idle"
  /\ path' = IF running THEN "loop_entered" ELSE "loop_ended"
  /\ UNCHANGED <<cal_vars, plot_data, state_vars, loop_vars, config_vars, button_vars, daq_vars,
                 scan, queue, recorder_vars, gui, sessions, started_at, added, emitted,
                 now, exported, saved_file>>

\* an iteration that resets the counter after every read that did not raise
read_iteration_resets_always(raises) ==
  /\ thread = "read"
  /\ IF daq_type \notin DaqTypes
     THEN /\ thread' = "idle"
          /\ path' = "unknown_type"
          /\ UNCHANGED consecutive_errors
     ELSE IF raises
     THEN /\ consecutive_errors' = consecutive_errors + 1
          /\ thread' = IF consecutive_errors' >= max_consecutive_errors THEN "idle" ELSE "run"
          /\ path' = IF consecutive_errors' >= max_consecutive_errors
                     THEN "too_many_errors" ELSE "read_raised"
     ELSE /\ consecutive_errors' = 0
          /\ thread' = "run"
          /\ path' = IF active_pins # <<>> THEN "samples_emitted" ELSE "nothing_emitted"
  /\ UNCHANGED <<cal_vars, plot_data, state_vars, daq_type, config_vars, button_vars, daq_vars,
                 scan, queue, recorder_vars, gui, sessions, started_at, added, emitted,
                 now, exported, saved_file>>

\* the body of the loop: the read of the device's kind, which emits a sample
\* of every active pin; only the MCC_ULDAQ branch resets the counter; an
\* exception is counted and ends the loop at the fifth
read_iteration(raises) ==
  /\ thread = "read"
  /\ IF daq_type \notin DaqTypes
     THEN /\ thread' = "idle"
          /\ path' = "unknown_type"
          /\ UNCHANGED consecutive_errors
     ELSE IF raises
     THEN /\ consecutive_errors' = consecutive_errors + 1
          /\ thread' = IF consecutive_errors' >= max_consecutive_errors THEN "idle" ELSE "run"
          /\ path' = IF consecutive_errors' >= max_consecutive_errors
                     THEN "too_many_errors" ELSE "read_raised"
     ELSE /\ consecutive_errors' = IF daq_type = "MCC_ULDAQ" THEN 0 ELSE consecutive_errors
          /\ thread' = "run"
          /\ path' = IF active_pins # <<>> THEN "samples_emitted" ELSE "nothing_emitted"
  /\ UNCHANGED <<cal_vars, plot_data, state_vars, daq_type, config_vars, button_vars, daq_vars,
                 scan, queue, recorder_vars, gui, sessions, started_at, added, emitted,
                 now, exported, saved_file>>

\* stop_acquisition up to its wait(): nothing unless running is set
stop_acquisition ==
  /\ gui = "idle"
  /\ running' = FALSE
  /\ gui' = IF running THEN "wait" ELSE "idle"
  /\ path' = IF running THEN "stop_waiting" ELSE "stop_ignored"
  /\ UNCHANGED <<cal_vars, plot_data, state_vars, loop_vars, config_vars, button_vars, active_pins,
                 thread_vars, queue, recorder_vars, sessions, started_at, added, emitted,
                 now, exported, saved_file>>

\* a wait() that returns while the thread still runs
wait_returns_at_once ==
  /\ gui = "wait"
  /\ gui' = "idle"
  /\ path' = "acquisition_stopped"
  /\ UNCHANGED <<cal_vars, plot_data, state_vars, loop_vars, config_vars, button_vars, daq_vars,
                 thread_vars, queue, recorder_vars, sessions, started_at, added, emitted,
                 now, exported, saved_file>>

\* wait() returns when run has returned, and stop_acquisition ends
wait_returns ==
  /\ gui = "wait"
  /\ thread = "idle"
  /\ gui' = "idle"
  /\ path' = "acquisition_stopped"
  /\ UNCHANGED <<cal_vars, plot_data, state_vars, loop_vars, config_vars, button_vars, daq_vars,
                 thread_vars, queue, recorder_vars, sessions, started_at, added, emitted,
                 now, exported, saved_file>>

InitLoop ==
  /\ daq_type \in DaqTypes
  /\ active_pins \in {<<>>, <<1>>, <<1, 2>>}
  /\ consecutive_errors = 0
  /\ config_file = Missing
  /\ loaded = NotCalled
  /\ plot_data = <<>>
  /\ pin_configs = create_pin_configs
  /\ pin_buttons = [p \in Pins |-> [checked |-> FALSE, is_monitoring |-> FALSE]]
  /\ start_enabled = TRUE
  /\ stop_enabled = FALSE
  /\ running = FALSE
  /\ thread = "idle"
  /\ scan = 0
  /\ queue = <<>>
  /\ is_recording = FALSE
  /\ recorded_data = <<>>
  /\ recording_start_time = None
  /\ active_pin_configs = <<>>
  /\ gui = "idle"
  /\ path = "none"
  /\ sessions = 0
  /\ started_at = 0
  /\ now = 0
  /\ exported = None
  /\ saved_file = NotCalled
  /\ added = <<>>
  /\ emitted = <<>>
  /\ call = [voltage |-> F(0, 0), calibration |-> DefaultCalibration]
  /\ ret = NotCalled

Worker ==
  \/ while_running
  \/ \E raises \in BOOLEAN : read_iteration(raises)

NextLoop ==
  \/ \E verified \in BOOLEAN : start_acquisition(verified)
  \/ stop_acquisition
  \/ wait_returns
  \/ Worker

SpecLoop == InitLoop /\ [][NextLoop]_vars

\* the worker thread is scheduled fairly
FairSpecLoop == SpecLoop /\ WF_vars(Worker)

----------------------------------------------------------------------------
(* PlotWidget: the buffers of the plotted channels. plot_data maps the     *)
(* plotted pins to their x_data, y_data and start_time. added keeps every  *)
(* point appended to a channel that is still plotted, in arrival order.    *)

\* PlotWidget.max_points, 1000 in the source, scaled down
max_points == 3

\* calls of update_data in a behaviour; each reads a later time
MaxUpdates == 5

PlotCalibrations ==
  {DefaultCalibration,
   CalibrationData(F(0, 0), F(1, 0), F(1, 0), F(1, 0), "m", TRUE)}

PlotVoltages == {F(5, -1), F(1, 0)}

\* add_channel: a channel that is not plotted gets empty buffers
add_channel(pin_number) ==
  /\ plot_data' =
       IF pin_number \in DOMAIN plot_data THEN plot_data
       ELSE [p \in DOMAIN plot_data \cup {pin_number} |->
               IF p = pin_number
               THEN [x_data |-> <<>>, y_data |-> <<>>, start_time |-> time]
               ELSE plot_data[p]]
  /\ path' = IF pin_number \in DOMAIN plot_data THEN "channel_kept" ELSE "channel_added"
  /\ UNCHANGED added

\* remove_channel: the channel and its buffers go
remove_channel(pin_number) ==
  /\ plot_data' = [p \in DOMAIN plot_data \ {pin_number} |-> plot_data[p]]
  /\ path' = IF pin_number \in DOMAIN plot_data THEN "channel_removed" ELSE "channel_absent"
  /\ added' = LET other(point) == point.pin_number # pin_number
              IN  SelectSeq(added, other)

\* a limit that drops the newest point
LimitedAtEnd(list) ==
  IF Len(list) > max_points THEN SubSeq(list, 1, Len(list) - 1) ELSE list

\* list.pop(0) once the list is longer than max_points
Limited(list) == IF Len(list) > max_points THEN Tail(list) ELSE list

\* update_data: nothing for a pin that is not plotted, and nothing appended
\* when apply_calibration raises; else the point is appended to both buffers
\* and the oldest point leaves both when they exceed max_points
update_data(pin_number, voltage) ==
  LET calibration   == pin_configs[pin_number].calibration
      current_time  == FSub(time, plot_data[pin_number].start_time)
      display_value == IF calibration.is_calibrated
                       THEN apply_calibration(voltage, calibration) ELSE voltage
  IN  IF pin_number \notin DOMAIN plot_data
      THEN /\ path' = "update_ignored"
           /\ UNCHANGED <<plot_data, added>>
      ELSE IF display_value = ZeroDivisionError
      THEN /\ path' = "update_raised"
           /\ UNCHANGED <<plot_data, added>>
      ELSE /\ plot_data' = [plot_data EXCEPT
                  ![pin_number].x_data = Limited(Append(@, current_time)),
                  ![pin_number].y_data = Limited(Append(@, display_value))]
           /\ added' = Append(added, [pin_number |-> pin_number, x |-> current_time,
                                       y |-> display_value])
           /\ path' = "point_appended"

PlotUnchanged ==
  UNCHANGED <<cal_vars, state_vars, loop_vars, config_vars, button_vars, daq_vars,
              thread_vars, queue, recorder_vars, gui, sessions, started_at, emitted,
              exported, saved_file>>

\* toggle_pin checks or unchecks a pin
PlotChannel(pin_number) ==
  /\ \/ add_channel(pin_number)
     \/ remove_channel(pin_number)
  /\ UNCHANGED now
  /\ PlotUnchanged

\* update_plot_data passes a reading on, at a later time
PlotUpdate(pin_number, voltage) ==
  /\ now < MaxUpdates
  /\ now' = now + 1
  /\ update_data(pin_number, voltage)
  /\ PlotUnchanged

InitPlot ==
  /\ \E cal \in PlotCalibrations :
       pin_configs = [p \in Pins |->
         PinConfig(p, IF p = 1 THEN cal ELSE DefaultCalibration)]
  /\ plot_data = <<>>
  /\ added = <<>>
  /\ now = 0
  /\ path = "none"
  /\ config_file = Missing
  /\ loaded = NotCalled
  /\ daq_type = "MCC_ULDAQ"
  /\ consecutive_errors = 0
  /\ pin_buttons = [p \in Pins |-> [checked |-> FALSE, is_monitoring |-> FALSE]]
  /\ start_enabled = TRUE
  /\ stop_enabled = FALSE
  /\ running = FALSE
  /\ active_pins = <<>>
  /\ thread = "idle"
  /\ scan = 0
  /\ queue = <<>>
  /\ is_recording = FALSE
  /\ recorded_data = <<>>
  /\ recording_start_time = None
  /\ active_pin_configs = <<>>
  /\ gui = "idle"
  /\ sessions = 0
  /\ started_at = 0
  /\ exported = None
  /\ saved_file = NotCalled
  /\ emitted = <<>>
  /\ call = [voltage |-> F(0, 0), calibration |-> DefaultCalibration]
  /\ ret = NotCalled

NextPlot ==
  \/ \E pin \in AnalogPins : PlotChannel(pin)
  \/ \E pin \in AnalogPins, voltage \in PlotVoltages : PlotUpdate(pin, voltage)

SpecPlot == InitPlot /\ [][NextPlot]_vars

----------------------------------------------------------------------------
(* Claims about apply_calibration, checked under SpecCal.                  *)

Returned == ret # NotCalled
Cal == call.calibration

\* |voltage_2 - voltage_1| < 1e-6, as floats compare
NearEqualVoltages(c) ==
  FLt(FAbs(FSub(c.point2_voltage, c.point1_voltage)), OneMillionth)

\* the calibration of the spec's example: 0.0 @ 0.0 V and 1.0 @ 5.0 V, enabled
ExampleCalibration == CalibrationData(F(0, 0), F(0, 0), F(1, 0), F(5, 0), "m", TRUE)

\* C1: for an enabled calibration with |voltage_2 - voltage_1| >= 1e-6 the call
\* returns m*v + b, m = (physical_2 - physical_1)/(voltage_2 - voltage_1) and
\* b = physical_1 - m*voltage_1, each operation a float operation; with the points
\* 0.0 @ 0.0 V and 1.0 @ 5.0 V it returns 0.5 for v = 2.5.
C1_LinearTransform ==
  (Returned /\ Cal.is_calibrated /\ ~NearEqualVoltages(Cal)) =>
     LET m == FDiv(FSub(Cal.point2_physical, Cal.point1_physical),
                   FSub(Cal.point2_voltage, Cal.point1_voltage))
         b == FSub(Cal.point1_physical, FMul(m, Cal.point1_voltage))
     IN  /\ ret = FAdd(FMul(m, call.voltage), b)
         /\ (Cal = ExampleCalibration /\ call.voltage = F(5, -1)) => ret = F(1, -1)

C1_Witness ==
  Returned /\ Cal = ExampleCalibration /\ call.voltage = F(5, -1) /\ ret = F(1, -1)

\* C2: with the calibration disabled the call returns the voltage unchanged, for
\* every voltage and all four points, equal voltages included.
C2_DisabledIsIdentity ==
  (Returned /\ ~Cal.is_calibrated) => ret = call.voltage

C2_Witness ==
  /\ Returned /\ ~Cal.is_calibrated
  /\ Cal.point1_voltage = Cal.point2_voltage
  /\ Cal.point1_physical # call.voltage
  /\ ret = call.voltage

\* C3: with the calibration enabled and |voltage_2 - voltage_1| < 1e-6 the call
\* returns physical_1 for every voltage and raises nothing.
C3_DegenerateReturnsPoint1 ==
  (Returned /\ Cal.is_calibrated /\ NearEqualVoltages(Cal)) =>
     ret # ZeroDivisionError /\ ret = Cal.point1_physical

C3_Witness ==
  /\ Returned /\ Cal.is_calibrated
  /\ Cal.point1_voltage = Cal.point2_voltage
  /\ Cal.point1_physical # Cal.point2_physical
  /\ call.voltage # Cal.point1_voltage
  /\ ret = Cal.point1_physical

\* C4 as stated: for an enabled calibration with voltage_1 # voltage_2 the call at
\* voltage_1 returns physical_1 and the call at voltage_2 returns physical_2.
C4_AnchorsExact ==
  (Returned /\ Cal.is_calibrated /\ Cal.point1_voltage # Cal.point2_voltage) =>
     /\ call.voltage = Cal.point1_voltage => ret = Cal.point1_physical
     /\ call.voltage = Cal.point2_voltage => ret = Cal.point2_physical

\* the rounding allowance at the anchors:
\* 2^-50 * (|physical_1| + |physical_2| + |m*voltage_1| + |m*voltage_2|), m the float slope
AnchorTolerance(c) ==
  LET m == FDiv(FSub(c.point2_physical, c.point1_physical),
                FSub(c.point2_voltage, c.point1_voltage))
  IN  DMul(F(1, -50),
           DAdd(DAdd(DAbs(c.point1_physical), DAbs(c.point2_physical)),
                DAdd(DAbs(DMul(m, c.point1_voltage)), DAbs(DMul(m, c.point2_voltage)))))

\* |x - y| <= tol, exactly
Within(x, y, tol) == DLeq(DAbs(DSub(x, y)), tol)

\* C4 amended: for an enabled calibration with |voltage_2 - voltage_1| >= 1e-6 the
\* call at voltage_1 returns physical_1 and the call at voltage_2 returns physical_2
\* up to floating-point rounding: the result differs from the anchor's physical value
\* by at most 2^-50 * (|physical_1| + |physical_2| + |m*voltage_1| + |m*voltage_2|).
C4_AnchorsWithinRounding ==
  (Returned /\ Cal.is_calibrated /\ ~NearEqualVoltages(Cal)) =>
     /\ ret # ZeroDivisionError
     /\ call.voltage = Cal.point1_voltage =>
          Within(ret, Cal.point1_physical, AnchorTolerance(Cal))
     /\ call.voltage = Cal.point2_voltage =>
          Within(ret, Cal.point2_physical, AnchorTolerance(Cal))

\* an anchor that is not reproduced exactly: 1.0 @ 1.0 V, 0.0 @ 2.5 V gives
\* 0.9999999999999999 = 1 - 2^-53 at 1.0 V
C4_Witness ==
  /\ Returned /\ Cal.is_calibrated /\ ~NearEqualVoltages(Cal)
  /\ Cal.point1_physical = F(1, 0) /\ Cal.point1_voltage = F(1, 0)
  /\ Cal.point2_physical = F(0, 0) /\ Cal.point2_voltage = F(5, -1)
  /\ call.voltage = Cal.point1_voltage
  /\ ret # Cal.point1_physical
  /\ DSub(Cal.point1_physical, ret) = F(1, -53)

----------------------------------------------------------------------------
(* Claims about the application, checked under Spec.                        *)

\* the step is the delivery of one data_ready signal to update_plot_data
Delivery == queue # <<>> /\ queue' = Tail(queue)

\* C5: in every reachable state every pin whose calibration is enabled has
\* point2_voltage different from point1_voltage.
C5_EnabledHasDistinctVoltages ==
  \A p \in Pins :
    pin_configs[p].calibration.is_calibrated =>
      pin_configs[p].calibration.point2_voltage # pin_configs[p].calibration.point1_voltage

StopOutcomes == {"stop_empty", "stop_dialog"} \cup SaveDialogOutcomes

\* C6: is_recording becomes true only in a step of start_recording that opens a
\* new session, and every stop, whatever its outcome (nothing recorded, save
\* dialog open, cancelled, file written, write failed), leaves is_recording false.
C6_IdleRecordingIdle ==
  [][ /\ (~is_recording /\ is_recording') => (path' = "started" /\ sessions' = sessions + 1)
      /\ path' \in StopOutcomes => ~is_recording'
      /\ gui' = "save_dialog" => ~is_recording' ]_vars

C6_Witness ==
  /\ path = "stop_failed"
  /\ ~is_recording
  /\ sessions = MaxSessions

C8_NoActiveChannelsNoSession ==
  [][ (~is_recording /\ MonitoredPins = <<>>) =>
        /\ ~is_recording'
        /\ UNCHANGED <<recorded_data, recording_start_time, active_pin_configs, sessions>>
        /\ path' \notin {"started", "sample_appended"} ]_vars

\* the record button was refused after monitoring of an earlier session's pins stopped
C8_Witness ==
  /\ path = "no_active_sensors"
  /\ ~is_recording
  /\ sessions = 1
  /\ recorded_data # <<>>

\* C9: a reading delivered while no session records leaves the recorder as it is.
C9_DeliveryWhenIdleIsNoOp ==
  [][ (~is_recording /\ Delivery) => UNCHANGED <<recorder_vars, sessions, started_at>> ]_vars

\* a reading delivered by the event loop of the save dialog, after the stop
C9_Witness ==
  /\ path = "sample_dropped"
  /\ gui = "save_dialog"
  /\ queue = <<>>
  /\ recorded_data # <<>>

\* what update_plot_data hands to add_data_point for the oldest queued reading
DeliveredSample ==
  LET pin_number == Head(queue).pin
      voltage == Head(queue).voltage
      calibration == pin_configs[pin_number].calibration
  IN  [timestamp |-> time,
       relative_time |-> Round(DSub(time, F(started_at, 0))),
       pin_number |-> pin_number,
       voltage |-> voltage,
       calibrated_value |-> IF calibration.is_calibrated
                            THEN apply_calibration(voltage, calibration)
                            ELSE voltage]

\* C10: a reading delivered while a session records appends exactly one sample with
\* the pin, the voltage, the calibrated value and the time of the delivery, and
\* relative_time = that time - the time of the most recent start; every start sets
\* recording_start_time to the time of that start.
C10_AppendsOneSample ==
  [][ /\ (is_recording /\ Delivery) =>
           /\ recorded_data' = Append(recorded_data, DeliveredSample)
           /\ UNCHANGED <<is_recording, recording_start_time, active_pin_configs>>
      /\ sessions' # sessions => (started_at' = now /\ recording_start_time' = time) ]_vars

\* the second session, started at time 1, holds two samples taken at time 1
C10_Witness ==
  /\ is_recording
  /\ sessions = 2
  /\ recording_start_time = F(1, 0)
  /\ Len(recorded_data) = 2
  /\ \A i \in 1..2 : recorded_data[i].relative_time = F(0, 0)


----------------------------------------------------------------------------
(* Claims about the exported file, checked under SpecCsv.                   *)

\* the units of the session's channels that are calibrated when the file is written
CalibratedUnits ==
  {pin_configs[active_pin_configs[i]].calibration.physical_unit :
     i \in {j \in 1..Len(active_pin_configs) :
              pin_configs[active_pin_configs[j]].calibration.is_calibrated}}

Range(seq) == {seq[i] : i \in 1..Len(seq)}

\* C12: the header is the five fixed columns followed by one calibrated-value
\* column per distinct unit of the session's calibrated channels, or by the one
\* generic calibrated-value column when no session channel is calibrated; every
\* row written has as many cells as the header.
C12_HeaderColumns ==
  exported # None =>
    LET headers == exported.headers
        extra   == SubSeq(headers, Len(FixedHeaders) + 1, Len(headers))
    IN  /\ SubSeq(headers, 1, Len(FixedHeaders)) = FixedHeaders
        /\ IF CalibratedUnits = {}
           THEN extra = <<GenericHeader>>
           ELSE /\ Len(extra) = Cardinality(CalibratedUnits)
                /\ Range(extra) = {UnitHeader(unit) : unit \in CalibratedUnits}
        /\ \A i \in 1..Len(exported.rows) : Len(exported.rows[i]) = Len(headers)

\* two channels with two units and six samples, all written
C12_Witness ==
  /\ exported # None
  /\ exported.raised = None
  /\ Len(exported.headers) = Len(FixedHeaders) + 2
  /\ Len(exported.rows) = MaxRows
  /\ \E i, j \in 1..MaxRows : exported.rows[i][3] # exported.rows[j][3]

\* C13: with at least one calibrated session channel, the row of a sample holds
\* the sample's calibrated value in the column of its channel's unit, if the
\* channel is calibrated, and the empty cell in every other unit column.
C13_ValueOnlyInOwnUnitColumn ==
  (exported # None /\ CalibratedUnits # {}) =>
    \A i \in 1..Len(exported.rows) :
      LET calibration == pin_configs[recorded_data[i].pin_number].calibration
      IN  \A j \in (Len(FixedHeaders) + 1)..Len(exported.headers) :
            exported.rows[i][j] =
              IF /\ calibration.is_calibrated
                 /\ exported.headers[j] = UnitHeader(calibration.physical_unit)
              THEN FormatFixed(recorded_data[i].calibrated_value, 6)
              ELSE EmptyCell

\* one "psi" channel and one uncalibrated channel: one unit column, empty on the
\* rows of the uncalibrated channel and filled on the others
C13_Witness ==
  /\ exported # None
  /\ exported.raised = None
  /\ exported.headers = FixedHeaders \o <<UnitHeader("psi")>>
  /\ \E i \in 1..Len(exported.rows) :
        /\ ~pin_configs[recorded_data[i].pin_number].calibration.is_calibrated
        /\ exported.rows[i][Len(FixedHeaders) + 1] = EmptyCell
  /\ \E i \in 1..Len(exported.rows) :
        exported.rows[i][Len(FixedHeaders) + 1] = FormatFixed(F(1, -1), 6)

----------------------------------------------------------------------------
(* Claims about the session and its export, checked under Spec.             *)

\* C11: a file written without error holds one row for each reading added since
\* the session started, in the order they were added, with the time, the pin and
\* the voltage of that reading; nothing recorded by an earlier session is in it.
C11_OneRowPerSample ==
  (exported # None /\ exported.raised = None) =>
    /\ exported.duration = Len(added)
    /\ Len(exported.rows) = Len(added)
    /\ \A i \in 1..Len(exported.rows) :
          /\ exported.rows[i][1] = FormatFixed(added[i].timestamp, 6)
          /\ exported.rows[i][3] = added[i].pin_number
          /\ exported.rows[i][5] = FormatFixed(added[i].voltage, 6)

\* the second session, started at time 1 on channels {1, 2}, exports its two samples
C11_Witness ==
  /\ exported # None
  /\ exported.raised = None
  /\ sessions = 2
  /\ started_at = 1
  /\ Len(exported.rows) = MaxSamples
  /\ exported.rows[1][3] # exported.rows[2][3]

\* the session is open: it records, or its save dialog is up
SessionOpen == is_recording \/ gui = "save_dialog"

\* C14 as stated: the columns of the export and the row of every recorded sample
\* are those the configuration at the start of the session gives; no step taken
\* between the start and the export changes the header the export will write or
\* the cells it will write for a sample already recorded.
C14_ColumnsFixedAtStart ==
  [][ SessionOpen =>
        /\ Headers(active_pin_configs, pin_configs')
              = Headers(active_pin_configs, pin_configs)
        /\ \A i \in 1..Len(recorded_data) :
              Contains(active_pin_configs, recorded_data[i].pin_number) =>
                Row(recorded_data[i], active_pin_configs, pin_configs')
                  = Row(recorded_data[i], active_pin_configs, pin_configs) ]_vars

\* a file with the column of the unit "units" holding 0.500000, the voltage of a
\* reading recorded before the channel was calibrated (calibrated, the reading
\* would have been recorded as 1.000000)
C14_Witness ==
  /\ exported # None
  /\ exported.raised = None
  /\ exported.headers = FixedHeaders \o <<UnitHeader("units")>>
  /\ exported.rows[1][Len(FixedHeaders) + 1] = FormatFixed(F(5, -1), 6)
  /\ pin_configs[exported.rows[1][3]].calibration.is_calibrated

\* recorded_data holds the readings of the list, one data point each, in order
HoldsExactly(list) ==
  /\ Len(recorded_data) = Len(list)
  /\ \A i \in 1..Len(list) :
        /\ recorded_data[i].pin_number = list[i].pin_number
        /\ recorded_data[i].voltage = list[i].voltage
        /\ recorded_data[i].timestamp = list[i].timestamp

\* C15: after an export that failed (the file could not be opened, or writing it
\* raised), recorded_data holds the samples the session was given, each once and
\* in the order they were added.
C15_FailedExportKeepsSamples ==
  path = "stop_failed" => (recorded_data # <<>> /\ HoldsExactly(added))

\* writing stopped with a KeyError after the first of two rows; both samples are
\* still in recorded_data
C15_Witness ==
  /\ path = "stop_failed"
  /\ exported # None
  /\ exported.raised = KeyError
  /\ Len(exported.rows) = 1
  /\ Len(recorded_data) = 2

\* a step that takes up the export of the samples recorded_data holds again,
\* without a new session: the save dialog opens or a file is written
RetryExport ==
  /\ sessions' = sessions
  /\ recorded_data' = recorded_data
  /\ (gui' = "save_dialog" \/ exported' # None)

\* C16 as stated: in the state that follows a failed export, an operation is
\* available to the user that takes up the export of the retained samples again
\* without starting a new session.
C16_RetryAvailable ==
  (path = "stop_failed" /\ gui = "idle") => ENABLED (Next /\ RetryExport)

\* the export failed and its samples are retained
C16_Witness ==
  /\ path = "stop_failed"
  /\ gui = "idle"
  /\ ~is_recording
  /\ Len(recorded_data) = MaxSamples
  /\ exported = None

\* a step taken once a session is over writes no file and does not open the save
\* dialog; it leaves recorded_data as it is unless it starts a new session, which
\* empties it
IdleStep ==
  (~is_recording /\ gui = "idle") =>
     /\ exported' = None
     /\ gui' # "save_dialog"
     /\ IF sessions' = sessions THEN recorded_data' = recorded_data
                                ELSE recorded_data' = <<>>

\* so the samples a session retains are never exported after it is over
NoExportOutsideSession == [][IdleStep]_vars

\* what stop_recording shows in recording_status for this return value
recording_status(saved) ==
  IF saved = Filename THEN "Recording saved" ELSE "Recording cancelled"

\* what stop_recording_and_save returns when the save dialog is cancelled
ReturnedOnCancel == None

\* C17 as stated: after a failed export the value stop_recording_and_save returned
\* is neither the one it returns on success nor the one it returns when the dialog
\* is cancelled, and the status stop_recording shows is not the one of a cancellation.
C17_FailureReportedDistinctly ==
  path = "stop_failed" =>
    /\ saved_file # Filename
    /\ saved_file # ReturnedOnCancel
    /\ recording_status(saved_file) # recording_status(ReturnedOnCancel)

\* open() refused the file: None is returned, as for a cancelled dialog
C17_Witness ==
  /\ path = "stop_failed"
  /\ saved_file = None
  /\ exported = None
  /\ recorded_data # <<>>

\* C18: cancelling the save dialog leaves the recorder idle, writes no file and
\* returns None; the samples stay in recorded_data, and from then on no step
\* exports them: no file is written and no save dialog opens while no session
\* records, and the next session starts with recorded_data empty.
C18_CancelDiscardsSession ==
  [][ /\ (gui = "save_dialog" /\ path' = "stop_cancelled") =>
           (~is_recording' /\ gui' = "idle" /\ exported' = None /\ saved_file' = None)
      /\ IdleStep ]_vars

\* the dialog of the first session, which held a sample, was cancelled
C18_Witness ==
  /\ path = "stop_cancelled"
  /\ ~is_recording
  /\ gui = "idle"
  /\ sessions = 1
  /\ recorded_data # <<>>
  /\ exported = None

\* the readings of the data points, as the thread emitted them
Readings(data) ==
  [i \in 1..Len(data) |-> [pin |-> data[i].pin_number, voltage |-> data[i].voltage]]

IsSuffix(s, t) == Len(s) <= Len(t) /\ SubSeq(t, Len(t) - Len(s) + 1, Len(t)) = s

C20_NoAppendDuringExport ==
  [][ /\ gui = "save_dialog" => recorded_data' = recorded_data
      /\ recorded_data' # recorded_data =>
            /\ gui = "idle"
            /\ Delivery \/ sessions' = sessions + 1
            /\ UNCHANGED <<thread_vars, running>> ]_vars

\* the event loop of the save dialog delivered a reading; the two samples of the
\* session are as they were
C20_Witness ==
  /\ gui = "save_dialog"
  /\ path = "sample_dropped"
  /\ Len(recorded_data) = MaxSamples
  /\ HoldsExactly(added)

\* C23: every recorded sample is of a channel of active_pin_configs, the table
\* the session took at its start.
C23_SamplesOfSessionChannels ==
  \A i \in 1..Len(recorded_data) : Contains(active_pin_configs, recorded_data[i].pin_number)

\* the export of a session stopped with a KeyError on its first sample, which is
\* of a pin that was switched on after the session had started
C23_Witness ==
  /\ path = "stop_failed"
  /\ exported # None
  /\ exported.raised = KeyError
  /\ exported.rows = <<>>
  /\ ~Contains(active_pin_configs, recorded_data[1].pin_number)


\* C24: a step that puts the recorder into Recording is taken while the
\* acquisition is running.
C24_RecordingStartsWhileRunning ==
  [][(~is_recording /\ is_recording') => running]_vars

\* the first session records and the acquisition was never started
C24_Witness ==
  /\ is_recording
  /\ ~running
  /\ thread = "idle"
  /\ sessions = 1
  /\ start_enabled = FALSE

\* C28: active_pins holds no pin twice and holds analog-input pins only;
\* add_pin of a pin it holds and remove_pin of a pin it does not hold leave
\* it as it is.
C28_ActivePinsDistinctAnalog ==
  /\ \A i, j \in 1..Len(active_pins) : active_pins[i] = active_pins[j] => i = j
  /\ \A i \in 1..Len(active_pins) : pin_configs[active_pins[i]].is_analog_input
  /\ \A pin \in Pins :
       IF Contains(active_pins, pin)
       THEN add_pin(active_pins, pin) = active_pins
       ELSE remove_pin(active_pins, pin) = active_pins

\* both analog pins were checked, the second before the first, and monitoring
\* was started, which adds the checked pins once more
C28_Witness ==
  /\ active_pins = <<2, 1>>
  /\ thread = "run"
  /\ stop_enabled
  /\ pin_buttons[1].is_monitoring /\ pin_buttons[2].is_monitoring

\* the DataRecorder as it is
Recorder ==
  [is_recording |-> is_recording, recorded_data |-> recorded_data,
   recording_start_time |-> recording_start_time,
   active_pin_configs |-> active_pin_configs]

\* a call of stop_recording_and_save on the idle recorder returns no file,
\* opens no dialog and leaves the recorder as it is
IdleStopChangesNothing ==
  ~is_recording =>
    /\ stop_recording_and_save(Recorder).returned = None
    /\ stop_recording_and_save(Recorder).recorder = Recorder
    /\ ~stop_recording_and_save(Recorder).dialog

\* a step that stops a session without a sample
EmptyStop ==
  /\ is_recording
  /\ recorded_data = <<>>
  /\ ~is_recording' \/ path' \in {"stop_empty", "stop_dialog"}

\* C30: a stop of a session without a sample leaves the recorder idle, opens
\* no save dialog, writes no file and returns no file name, as the call of
\* stop_recording_and_save on the same recorder does; and after every step,
\* stop_recording_and_save on an idle recorder returns no file and leaves the
\* recorder as it is.
C30_EmptyStopWritesNothing ==
  [][/\ EmptyStop =>
          /\ ~is_recording'
          /\ path' = "stop_empty"
          /\ gui' = "idle"
          /\ exported' = None
          /\ saved_file' = None
          /\ Recorder' = stop_recording_and_save(Recorder).recorder
          /\ ~stop_recording_and_save(Recorder).dialog
     /\ IdleStopChangesNothing']_vars

\* the first session was stopped before a sample arrived, while the
\* acquisition was running
C30_Witness ==
  /\ path = "stop_empty"
  /\ ~is_recording
  /\ saved_file = None
  /\ gui = "idle"
  /\ sessions = 1
  /\ running

----------------------------------------------------------------------------
(* Claims about the persisted configuration, checked under SpecState.      *)

\* load_state was called in the last step
StateLoaded == loaded # NotCalled

\* the file on disk is one save_state wrote: it alone stores a timestamp
WrittenBySaveState ==
  /\ config_file.exists /\ config_file.parses
  /\ config_file.json.kind = "object"
  /\ HasKey(json_load(config_file.json), Chars("timestamp"))

\* the same pins in the same order with the same stored fields
SameConfigs(a, b) ==
  /\ Len(a) = Len(b)
  /\ \A i \in 1..Len(a) :
       /\ a[i].pin_number = b[i].pin_number
       /\ a[i].name = b[i].name
       /\ a[i].pin_type = b[i].pin_type
       /\ a[i].function = b[i].function
       /\ a[i].is_analog_input = b[i].is_analog_input
       /\ a[i].calibration = b[i].calibration

DefaultConfigs == [p \in Pins |-> AsText(create_pin_configs[p])]

\* C21: a load_state that follows a successful save_state returns a list with
\* the saved pins in the saved order, each with the saved pin_number, name,
\* pin_type, function, is_analog_input and the six fields of its calibration.
C21_SaveLoadRoundTrip ==
  [][(path = "state_saved" /\ loaded' # NotCalled)
       => (loaded' # None /\ SameConfigs(loaded'.pin_configs, pin_configs))]_vars

\* a list of two pins, one with a name outside the Basic Multilingual Plane and
\* one with a calibration of decimal fractions, was saved and loaded
C21_Witness ==
  /\ StateLoaded /\ WrittenBySaveState
  /\ loaded # None
  /\ Len(loaded.pin_configs) = 2
  /\ loaded.pin_configs[1].name = <<80, 128512>>
  /\ loaded.pin_configs[2].calibration.point1_physical = OneTenth
  /\ loaded.pin_configs[2].name = <<34, 92, 47>>

\* C22: after load_or_create_pin_configs, if the file is missing, is not JSON
\* or lacks part of the structure, load_state returned None and the pins are
\* the generated defaults; if the file holds no entry the pins are the
\* generated defaults too; in every case the pin list is not empty.
C22_BadFileGivesDefaults ==
  StateLoaded =>
    /\ config_file \in {Missing, Unparseable} \cup {JsonFile(j) : j \in IncompleteJson}
         => (loaded = None /\ pin_configs = DefaultConfigs)
    /\ config_file \in {JsonFile(j) : j \in EmptyJson}
         => (loaded = Loaded(<<>>) /\ pin_configs = DefaultConfigs)
    /\ Len(pin_configs) > 0

\* an entry of the file lacks a key of its calibration, and the defaults are
\* in place
C22_Witness ==
  /\ StateLoaded
  /\ config_file = JsonFile(json_dump(WithEntries(Py("list",
        <<[GoodPin EXCEPT !.value[6][2] = Without(@, Chars("is_calibrated"))]>>))))
  /\ pin_configs = DefaultConfigs

----------------------------------------------------------------------------
(* Claims about the acquisition loop, checked under SpecLoop and under     *)
(* FairSpecLoop.                                                           *)

\* run has returned or was never started, and no stop_acquisition waits
LoopExited == thread = "idle" /\ gui = "idle"

\* C25: whenever run has exited and no call of start_acquisition or
\* stop_acquisition is in progress, running is false.
C25_RunningFalseAfterExit == LoopExited => ~running

\* start_acquisition did nothing because running was set, and no loop runs
C25_Witness ==
  /\ path = "start_ignored"
  /\ LoopExited
  /\ consecutive_errors = max_consecutive_errors

\* a read iteration that did not raise
ReadSucceeded ==
  /\ thread = "read"
  /\ thread' = "run"
  /\ path' \in {"samples_emitted", "nothing_emitted"}

\* C26: the counter counts consecutive failures only: every read iteration
\* that does not raise, on every kind of device, leaves it at 0.
C26_SuccessResetsCounter == [][ReadSucceeded => consecutive_errors' = 0]_vars

\* a read of a USB_MCC device succeeded and the counter still holds the four
\* failures before it, so that one more failure ends the loop
C26_Witness ==
  /\ daq_type = "USB_MCC"
  /\ path = "samples_emitted"
  /\ consecutive_errors = max_consecutive_errors - 1
  /\ thread = "run"

\* stop_acquisition has returned or was never called since the last start
Stopped == ~running /\ gui = "idle"

\* C27: once stop_acquisition has cleared running and waits, the loop ends;
\* stop_acquisition returns only when the loop has ended; and from its return
\* to the next start no sample is emitted.
C27_StopEndsLoop ==
  /\ (gui = "wait") ~> (thread = "idle")
  /\ [][(gui = "wait" /\ gui' = "idle") => thread = "idle"]_vars
  /\ [][Stopped => path' # "samples_emitted"]_vars

\* stop_acquisition has returned from a loop that was reading two pins
C27_Witness ==
  /\ path = "acquisition_stopped"
  /\ Stopped
  /\ thread = "idle"
  /\ active_pins = <<1, 2>>

----------------------------------------------------------------------------
(* Claims about the plot buffers, checked under SpecPlot.                  *)

\* the points appended to the channel since it was added, oldest first
Arrived(pin) ==
  LET own(point) == point.pin_number = pin
  IN  SelectSeq(added, own)

\* the last n elements of list, or all of it
LastOf(list, n) ==
  IF Len(list) <= n THEN list ELSE SubSeq(list, Len(list) - n + 1, Len(list))

\* the buffers of every plotted channel have the same length, at most
\* max_points, and hold the most recent points of the channel in arrival order
BuffersHoldNewest ==
  \A pin \in DOMAIN plot_data :
    LET recent == LastOf(Arrived(pin), max_points)
    IN  /\ Len(plot_data[pin].x_data) = Len(plot_data[pin].y_data)
        /\ Len(plot_data[pin].x_data) <= max_points
        /\ plot_data[pin].x_data = [i \in 1..Len(recent) |-> recent[i].x]
        /\ plot_data[pin].y_data = [i \in 1..Len(recent) |-> recent[i].y]

\* C29: after every step, for every plotted channel x_data and y_data have
\* the same length, at most max_points, and hold the most recent points
\* appended to the channel in arrival order; update_data for a pin that is
\* not plotted changes nothing.
C29_BuffersHoldNewestPoints ==
  [][/\ BuffersHoldNewest'
     /\ path' = "update_ignored" => plot_data' = plot_data]_vars

\* a channel has received more points than max_points and holds max_points
C29_Witness ==
  /\ 1 \in DOMAIN plot_data
  /\ Len(Arrived(1)) = max_points + 1
  /\ Len(plot_data[1].x_data) = max_points

=============================================================================
